---- MODULE Spec2Model ----
(***************************************************************************)
(* A model of the go-rag text chunker (internal/loader/chunker.go) and of  *)
(* the document loader built on it (internal/loader, DocumentLoader).      *)
(*                                                                         *)
(* A text is a sequence of one-character strings.  The chunker's loops are *)
(* modelled one iteration per action; the same iteration operators are     *)
(* folded into the operators chunkByFixedSize, combineItemsIntoChunks and  *)
(* ChunkText, which the loader applies atomically.                         *)
(*                                                                         *)
(* Further down: the RAG service (DefaultRAGService) over its three        *)
(* collaborators, and the vector store (PostgresVectorDB) over the tables  *)
(* rag.documents and rag.embeddings.  Each component has its own           *)
(* specification; the variables of the others stay idle in it.             *)
(***************************************************************************)
EXTENDS Integers, Sequences, FiniteSets, TLC

VARIABLES
    text,           \* ChunkText: the text argument
    strategy,       \* options.Strategy
    maxSize,        \* options.MaxChunkSize
    overlap,        \* options.ChunkOverlap
    pc,             \* position of the ChunkText call
    items,          \* combineItemsIntoChunks: the items not yet ranged over
    currentChunk,   \* combineItemsIntoChunks: currentChunk
    chunks,         \* combineItemsIntoChunks: chunks; at "done" the result
    caller,         \* who called chunkByFixedSize: "ChunkText" or "combine"
    ftext,          \* chunkByFixedSize: the trimmed text
    i,              \* chunkByFixedSize: the loop index
    fchunks,        \* chunkByFixedSize: chunks
    mode,           \* LoadFromFile: what os.Stat finds at the path
    walk,           \* the path's entries, in filepath.Walk's order
    baseMeta,       \* LoadFromFile: the metadata argument
    cancelled,      \* the context has been cancelled
    lpc,            \* position of the LoadFromFile call
    walkIdx,        \* the entry of walk being visited (from 1)
    docMeta,        \* ProcessDocument: the metadata argument
    docChunks,      \* ProcessDocument: chunks
    chunkIdx,       \* ProcessDocument: the chunk index i
    embedding,      \* ProcessDocument: the vector of the current chunk
    log,            \* the reads and collaborator calls made so far
    stored,         \* the documents the store holds, with their vectors
    warnings,       \* the files loadFromDirectory has logged a warning for
    result,         \* what LoadFromFile returned
    svcOp,          \* the RAGService method called
    svcArg,         \* its content or query argument
    svcMeta,        \* AddDocument: the metadata argument
    svcLimitArg,    \* SearchSimilar, Query: the limit argument
    svcLimit,       \* SearchSimilar: limit, after the default is substituted
    svcPc,          \* position of the RAGService call
    svcDoc,         \* AddDocument: doc
    svcVector,      \* the embedding returned by GenerateEmbedding
    svcFound,       \* Query: the results SearchSimilar returned
    svcCalls,       \* the collaborator calls made so far
    svcRet,         \* what the RAGService call returned
    dbConnected,    \* PostgresVectorDB.db is set (Connect has succeeded)
    documents,      \* the committed rows of rag.documents
    embeddings,     \* the committed rows of rag.embeddings
    dbCall,         \* the PostgresVectorDB call under way
    dbPc,           \* its position
    txOpen,         \* its transaction is open
    txDocuments,    \* rag.documents as the open transaction sees it
    txEmbeddings,   \* rag.embeddings as the open transaction sees it
    dbRet,          \* what the last PostgresVectorDB call returned
    dbCalls,        \* the number of StoreDocument and DeleteDocument calls made
    httpRoute,      \* the route of the HTTP request
    httpBody,       \* its body
    httpId,         \* its :id parameter
    httpPc,         \* position of the handler
    httpStatus      \* the status code of the response, 0 before it is written

cvars == <<text, strategy, maxSize, overlap, pc, items, currentChunk, chunks,
           caller, ftext, i, fchunks>>

lvars == <<mode, walk, baseMeta, cancelled, lpc, walkIdx, docMeta, docChunks, chunkIdx,
           embedding, log, stored, warnings, result>>

svars == <<svcOp, svcArg, svcMeta, svcLimitArg, svcLimit, svcPc, svcDoc, svcVector,
           svcFound, svcCalls, svcRet>>

dvars == <<dbConnected, documents, embeddings, dbCall, dbPc, txOpen, txDocuments, txEmbeddings,
           dbRet, dbCalls>>

hvars == <<httpRoute, httpBody, httpId, httpPc, httpStatus>>

----------------------------------------------------------------------------
(* Bounds of the model *)

MaxLen == 4
MaxChunkSize == 3
MaxFiles == 2

----------------------------------------------------------------------------
(* Characters and the library functions the chunker calls *)

Space == " "
NL == "\n"
Alphabet == {"a", "B", Space, NL, "."}

IsSpace(c) == c \in {Space, NL}
IsUpper(c) == c \in {"A", "B", "C", "D", "E", "P"}
IsLower(c) == c \in {"a", "b", "c", "d", "e", "f", "g", "h", "i", "j",
                     "n", "o", "r", "t", "w"}
IsLetter(c) == IsUpper(c) \/ IsLower(c)
IsTerminator(c) == c \in {".", "!", "?"}

Min(a, b) == IF a < b THEN a ELSE b

SetMin(S) == CHOOSE x \in S : \A y \in S : x <= y
SetMax(S) == CHOOSE x \in S : \A y \in S : x >= y

\* strings.TrimSpace
TrimSpace(s) ==
    LET keep == {j \in 1..Len(s) : ~IsSpace(s[j])}
    IN  IF keep = {} THEN <<>> ELSE SubSeq(s, SetMin(keep), SetMax(keep))

\* strings.Split(s, "\n\n"): cut at each leftmost non-overlapping "\n\n"
RECURSIVE SplitParagraphs(_)
SplitParagraphs(s) ==
    LET seps == {j \in 1..(Len(s) - 1) : s[j] = NL /\ s[j + 1] = NL}
    IN  IF seps = {} THEN <<s>>
        ELSE LET j == SetMin(seps)
             IN  <<SubSeq(s, 1, j - 1)>> \o SplitParagraphs(SubSeq(s, j + 2, Len(s)))

\* strings.Fields: the maximal runs of non-space characters
RECURSIVE Fields(_)
Fields(s) ==
    LET starts == {j \in 1..Len(s) : ~IsSpace(s[j])}
    IN  IF starts = {} THEN <<>>
        ELSE LET b == SetMin(starts)
                 stops == {j \in b..Len(s) : IsSpace(s[j])}
                 e == IF stops = {} THEN Len(s) + 1 ELSE SetMin(stops)
             IN  <<SubSeq(s, b, e - 1)>> \o Fields(SubSeq(s, e, Len(s)))

\* strings.Join(words, " ")
RECURSIVE JoinSpace(_)
JoinSpace(words) ==
    IF words = <<>> THEN <<>>
    ELSE IF Len(words) = 1 THEN words[1]
    ELSE words[1] \o <<Space>> \o JoinSpace(Tail(words))

\* the trimmed elements of a list, the empty ones kept
RECURSIVE CleanItems_KeepEmpty(_)
CleanItems_KeepEmpty(list) ==
    IF list = <<>> THEN <<>>
    ELSE <<TrimSpace(Head(list))>> \o CleanItems_KeepEmpty(Tail(list))

\* the trimmed, non-empty elements of a list, in order
RECURSIVE CleanItems(_)
CleanItems(list) ==
    IF list = <<>> THEN <<>>
    ELSE LET trimmed == TrimSpace(Head(list))
         IN  (IF trimmed # <<>> THEN <<trimmed>> ELSE <<>>) \o CleanItems(Tail(list))

\* a Go slice expression s[lo:hi] (0-based, hi exclusive) is in range
SliceOK(s, lo, hi) == 0 <= lo /\ lo <= hi /\ hi <= Len(s)
Slice(s, lo, hi) == SubSeq(s, lo + 1, hi)

----------------------------------------------------------------------------
(* chunker.go: the pure parts *)

\* the default case taken for the sentence strategy's
Dispatch_DefaultSentence(strat) ==
    IF strat = "fixed_size" THEN "chunkByFixedSize"
    ELSE IF strat = "paragraph" THEN "chunkByParagraph"
    ELSE "chunkBySentence"

\* ChunkText's switch on options.Strategy: the function it calls
Dispatch(strat) ==
    CASE strat = "paragraph" -> "chunkByParagraph"
      [] strat = "sentence" -> "chunkBySentence"
      [] strat = "fixed_size" -> "chunkByFixedSize"
      [] OTHER -> "chunkByParagraph"

\* the comparison turned round: a paragraph that fits makes it answer false
allParagraphsUnderMaxSize_Inverted(paragraphs, ms) ==
    \A k \in 1..Len(paragraphs) : ~(Len(paragraphs[k]) < ms)

allParagraphsUnderMaxSize(paragraphs, ms) ==
    \A k \in 1..Len(paragraphs) : ~(Len(paragraphs[k]) > ms)

\* the last word alone, whatever the overlap
OverlapStart_LastWord(words, k, total, overlapChars) == Len(words) - 1

\* getOverlapText's backward loop: the 0-based startIdx it ends with
RECURSIVE OverlapStart(_, _, _, _)
OverlapStart(words, k, total, overlapChars) ==
    IF k < 0 THEN Len(words)
    ELSE LET total1 == total + Len(words[k + 1]) + 1
         IN  IF total1 >= overlapChars THEN k
             ELSE OverlapStart(words, k - 1, total1, overlapChars)

getOverlapText(words, overlapChars) ==
    LET startIdx == OverlapStart(words, Len(words) - 1, 0, overlapChars)
    IN  JoinSpace(SubSeq(words, startIdx + 1, Len(words)))

\* splitIntoSentences' loop from 0-based index j on; cur is currentSentence
RECURSIVE SentenceLoop(_, _, _, _, _)
SentenceLoop(t, j, sentences, cur, inAbbreviation) ==
    IF j >= Len(t) THEN [sentences |-> sentences, cur |-> cur]
    ELSE
    LET r == t[j + 1]
        cur1 == Append(cur, r)
        abbr1 == IF IsLetter(r) /\ j + 1 < Len(t) /\ t[j + 2] = "." THEN TRUE
                 ELSE IF IsSpace(r) THEN FALSE
                 ELSE inAbbreviation
    IN  IF IsTerminator(r) /\ j + 1 < Len(t)
        THEN LET next == t[j + 2]
             IN  IF IsSpace(next) /\ j + 2 < Len(t) /\ IsUpper(t[j + 3])
                 THEN SentenceLoop(t, j + 1, Append(sentences, cur1), <<>>, FALSE)
                 ELSE IF r = "." /\ IsSpace(next) /\ ~inAbbreviation
                 THEN SentenceLoop(t, j + 1, Append(sentences, cur1), <<>>, inAbbreviation)
                 ELSE SentenceLoop(t, j + 1, sentences, cur1, abbr1)
        ELSE IF IsTerminator(r) /\ j + 1 = Len(t)
        THEN \* break: the sentence is appended and currentSentence is not reset
             [sentences |-> Append(sentences, cur1), cur |-> cur1]
        ELSE SentenceLoop(t, j + 1, sentences, cur1, abbr1)

splitIntoSentences(t) ==
    LET r == SentenceLoop(t, 0, <<>>, <<>>, FALSE)
    IN  IF Len(r.cur) > 0 THEN Append(r.sentences, r.cur) ELSE r.sentences

\* chunkByFixedSize before its loop, the text left untrimmed
FixedPrologue_Untrimmed(t0, ms) ==
    IF t0 = <<>> THEN [st |-> "return", text |-> t0, i |-> 0, chunks |-> <<>>]
    ELSE IF Len(t0) <= ms THEN [st |-> "return", text |-> t0, i |-> 0, chunks |-> <<t0>>]
    ELSE [st |-> "loop", text |-> t0, i |-> 0, chunks |-> <<>>]

\* chunkByFixedSize before its loop: the early returns, else the loop's start
FixedPrologue(t0, ms) ==
    LET t == TrimSpace(t0)
    IN  IF t = <<>> THEN [st |-> "return", text |-> t, i |-> 0, chunks |-> <<>>]
        ELSE IF Len(t) <= ms THEN [st |-> "return", text |-> t, i |-> 0, chunks |-> <<t>>]
        ELSE [st |-> "loop", text |-> t, i |-> 0, chunks |-> <<>>]

\* the window moved on by its whole size, the overlap forgotten
Stride_NoOverlap(ms, ov) == ms

\* the increment of the sliding window loop
Stride(ms, ov) == ms - ov

\* the tail-merge test without its threshold: no window counts as tiny
TinyTail_Never(idx, end, ms, cs) == FALSE

\* the tail-merge test of the sliding window loop
TinyTail(idx, end, ms, cs) == end - idx < ms \div 4 /\ Len(cs) > 0

\* one pass of chunkByFixedSize's loop, from its test i < len(text):
\* st is "loop" (go round again), "return" or "panic" (slice out of range)
FixedBody(t, ms, ov, idx, cs) ==
    IF ~(idx < Len(t)) THEN [st |-> "return", i |-> idx, chunks |-> cs]
    ELSE
    LET end == IF idx + ms > Len(t) THEN Len(t) ELSE idx + ms
    IN  IF ~SliceOK(t, idx, end) THEN [st |-> "panic", i |-> idx, chunks |-> cs]
        ELSE IF TinyTail(idx, end, ms, cs)
        THEN [st |-> "return", i |-> idx,
              chunks |-> [cs EXCEPT ![Len(cs)] = @ \o <<Space>> \o Slice(t, idx, end)]]
        ELSE IF end = Len(t)
        THEN [st |-> "return", i |-> idx, chunks |-> Append(cs, Slice(t, idx, end))]
        ELSE [st |-> "loop", i |-> idx + Stride(ms, ov),
              chunks |-> Append(cs, Slice(t, idx, end))]

\* the separating space left out of the test that closes the buffer
CombineAppend_SeparatorNotCounted(cur, cs, item, ms, ov) ==
    IF Len(cur) > 0 /\ Len(cur) + Len(item) > ms
    THEN LET cs1 == Append(cs, TrimSpace(cur))
         IN  IF ov > 0 /\ Len(cur) > ov
             THEN LET words == Fields(cur)
                  IN  IF Len(words) > 3
                      THEN [cur |-> getOverlapText(words, ov) \o <<Space>> \o item,
                            chunks |-> cs1]
                      ELSE [cur |-> item, chunks |-> cs1]
             ELSE [cur |-> item, chunks |-> cs1]
    ELSE [cur |-> (IF Len(cur) > 0 THEN cur \o <<Space>> ELSE cur) \o item,
          chunks |-> cs]

\* combineItemsIntoChunks, one item: close the buffer or append to it
CombineAppend(cur, cs, item, ms, ov) ==
    IF Len(cur) > 0 /\ Len(cur) + 1 + Len(item) > ms
    THEN LET cs1 == Append(cs, TrimSpace(cur))
         IN  IF ov > 0 /\ Len(cur) > ov
             THEN LET words == Fields(cur)
                  IN  IF Len(words) > 3
                      THEN [cur |-> getOverlapText(words, ov) \o <<Space>> \o item,
                            chunks |-> cs1]
                      ELSE [cur |-> item, chunks |-> cs1]
             ELSE [cur |-> item, chunks |-> cs1]
    ELSE [cur |-> (IF Len(cur) > 0 THEN cur \o <<Space>> ELSE cur) \o item,
          chunks |-> cs]

\* combineItemsIntoChunks, after the re-split of an oversized buffer
CombineResplit(cs, fixedChunks) ==
    [chunks |-> IF Len(fixedChunks) > 1
                THEN cs \o SubSeq(fixedChunks, 1, Len(fixedChunks) - 1)
                ELSE cs,
     cur |-> IF Len(fixedChunks) > 0 THEN fixedChunks[Len(fixedChunks)] ELSE <<>>]

\* the buffer left after the last item thrown away
CombineFlush_BufferDropped(cur, cs) == cs

\* combineItemsIntoChunks, after the last item
CombineFlush(cur, cs) ==
    IF TrimSpace(cur) # <<>> THEN Append(cs, TrimSpace(cur)) ELSE cs

----------------------------------------------------------------------------
(* chunker.go: the functions as operators (for a positive stride) *)

RECURSIVE FixedLoop(_, _, _, _, _)
FixedLoop(t, ms, ov, idx, cs) ==
    LET r == FixedBody(t, ms, ov, idx, cs)
    IN  IF r.st = "loop" THEN FixedLoop(t, ms, ov, r.i, r.chunks) ELSE r.chunks

chunkByFixedSize(t0, ms, ov) ==
    LET p == FixedPrologue(t0, ms)
    IN  IF p.st = "return" THEN p.chunks ELSE FixedLoop(p.text, ms, ov, p.i, p.chunks)

RECURSIVE CombineLoop(_, _, _, _, _)
CombineLoop(its, cur, cs, ms, ov) ==
    IF its = <<>> THEN CombineFlush(cur, cs)
    ELSE LET a == CombineAppend(cur, cs, Head(its), ms, ov)
             b == IF Len(a.cur) > ms
                  THEN CombineResplit(a.chunks, chunkByFixedSize(a.cur, ms, ov))
                  ELSE a
         IN  CombineLoop(Tail(its), b.cur, b.chunks, ms, ov)

combineItemsIntoChunks(its, ms, ov) == CombineLoop(its, <<>>, <<>>, ms, ov)

chunkByParagraph(t, ms, ov) ==
    LET cleanParagraphs == CleanItems(SplitParagraphs(t))
    IN  IF Len(cleanParagraphs) = 0 THEN <<>>
        ELSE IF allParagraphsUnderMaxSize(cleanParagraphs, ms) THEN cleanParagraphs
        ELSE combineItemsIntoChunks(cleanParagraphs, ms, ov)

chunkBySentence(t, ms, ov) ==
    LET cleanSentences == CleanItems(splitIntoSentences(t))
    IN  IF Len(cleanSentences) = 0 THEN <<>>
        ELSE combineItemsIntoChunks(cleanSentences, ms, ov)

ChunkText(t, strat, ms, ov) ==
    CASE Dispatch(strat) = "chunkByParagraph" -> chunkByParagraph(t, ms, ov)
      [] Dispatch(strat) = "chunkBySentence" -> chunkBySentence(t, ms, ov)
      [] Dispatch(strat) = "chunkByFixedSize" -> chunkByFixedSize(t, ms, ov)

----------------------------------------------------------------------------
(* The inputs of a ChunkText call *)

Strategies == {"paragraph", "sentence", "fixed_size", "other"}

\* every text of at most MaxLen characters
ShortTexts == UNION {[1..n -> Alphabet] : n \in 0..MaxLen}

\* longer documents: the spec's fixed-size scenario, a nine-character text,
\* the shortest one with a tail to merge (maxSize 8), and a six-character
\* text, whose tail is a fifth of maxSize 5
SampleTexts ==
    { <<"a", "b", "c", "d", "e", "f", "g", "h", "i", "j">>,
      <<"a", "b", "c", "d", "e", "f", "g", "h", "i">>,
      <<"a", "b", " ", "c", "d", NL, NL, "e", "f">>,
      <<"a", "b", "c", "d", "e", "f">> }
SampleSizes == {4, 5, 8}
SampleOverlaps == {0, 1}

\* texts of a sentence of four words and a second sentence, the words of the
\* second text further apart
WordTexts ==
    { <<"a", " ", "b", " ", "c", " ", "d", ".", " ", "B">>,
      <<"a", " ", " ", " ", "b", " ", " ", "c", " ", "d", ".", " ", "B">> }
WordSizes == {8, 9, 11}
WordOverlaps == {0, 1, 8, 10}

InitCall ==
    /\ pc = "call"
    /\ items = <<>>
    /\ currentChunk = <<>>
    /\ chunks = <<>>
    /\ caller = "none"
    /\ ftext = <<>>
    /\ i = 0
    /\ fchunks = <<>>

\* no HTTP request is being handled
HttpIdle ==
    /\ httpRoute = "none"
    /\ httpBody = [json |-> FALSE, text |-> "", limit |-> 0]
    /\ httpId = ""
    /\ httpPc = "idle"
    /\ httpStatus = 0

\* no RAGService call is under way
ServiceIdle ==
    /\ svcOp = "none"
    /\ svcArg = ""
    /\ svcMeta = <<>>
    /\ svcLimitArg = 0
    /\ svcLimit = 0
    /\ svcPc = "idle"
    /\ svcDoc = [id |-> 0, content |-> "", metadata |-> <<>>]
    /\ svcVector = 0
    /\ svcFound = <<>>
    /\ svcCalls = <<>>
    /\ svcRet = [err |-> "pending"]

\* the database is not used
StoreIdle ==
    /\ dbConnected = FALSE
    /\ documents = {}
    /\ embeddings = {}
    /\ dbCall = [op |-> "none"]
    /\ dbPc = "idle"
    /\ txOpen = FALSE
    /\ txDocuments = {}
    /\ txEmbeddings = {}
    /\ dbRet = "pending"
    /\ dbCalls = 0

\* no LoadFromFile call is under way
LoaderIdle ==
    /\ mode = "none"
    /\ walk = <<>>
    /\ baseMeta = <<>>
    /\ cancelled = FALSE
    /\ lpc = "idle"
    /\ walkIdx = 0
    /\ docMeta = <<>>
    /\ docChunks = <<>>
    /\ chunkIdx = 0
    /\ embedding = 0
    /\ log = <<>>
    /\ stored = <<>>
    /\ warnings = <<>>
    /\ result = [kind |-> "pending", chunk |-> -1]

InitShort ==
    /\ text \in ShortTexts
    /\ strategy \in Strategies
    /\ maxSize \in 1..MaxChunkSize
    /\ overlap \in 0..MaxChunkSize
    /\ InitCall

InitSample ==
    /\ text \in SampleTexts
    /\ strategy \in Strategies
    /\ maxSize \in SampleSizes
    /\ overlap \in SampleOverlaps
    /\ InitCall

InitWords ==
    /\ text \in WordTexts
    /\ strategy \in Strategies
    /\ maxSize \in WordSizes
    /\ overlap \in WordOverlaps
    /\ InitCall

Init == (InitShort \/ InitSample \/ InitWords) /\ LoaderIdle /\ ServiceIdle /\ StoreIdle /\ HttpIdle

----------------------------------------------------------------------------
(* ChunkText, one loop iteration per step *)

inputs == <<text, strategy, maxSize, overlap>>
fixedVars == <<caller, ftext, i, fchunks>>

ChunkByParagraphCall ==
    /\ pc = "call"
    /\ Dispatch(strategy) = "chunkByParagraph"
    /\ LET cleanParagraphs == CleanItems(SplitParagraphs(text))
       IN  IF Len(cleanParagraphs) = 0
           THEN pc' = "done" /\ chunks' = <<>> /\ items' = items
           ELSE IF allParagraphsUnderMaxSize(cleanParagraphs, maxSize)
           THEN pc' = "done" /\ chunks' = cleanParagraphs /\ items' = items
           ELSE pc' = "combine" /\ chunks' = <<>> /\ items' = cleanParagraphs
    /\ currentChunk' = <<>>
    /\ UNCHANGED <<lvars, svars, dvars, hvars, inputs, fixedVars>>

ChunkBySentenceCall ==
    /\ pc = "call"
    /\ Dispatch(strategy) = "chunkBySentence"
    /\ LET cleanSentences == CleanItems(splitIntoSentences(text))
       IN  IF Len(cleanSentences) = 0
           THEN pc' = "done" /\ chunks' = <<>> /\ items' = items
           ELSE pc' = "combine" /\ chunks' = <<>> /\ items' = cleanSentences
    /\ currentChunk' = <<>>
    /\ UNCHANGED <<lvars, svars, dvars, hvars, inputs, fixedVars>>

ChunkByFixedSizeCall ==
    /\ pc = "call"
    /\ Dispatch(strategy) = "chunkByFixedSize"
    /\ LET p == FixedPrologue(text, maxSize)
       IN  IF p.st = "return"
           THEN pc' = "done" /\ chunks' = p.chunks /\ UNCHANGED fixedVars
           ELSE /\ pc' = "fixed"
                /\ caller' = "ChunkText"
                /\ ftext' = p.text
                /\ i' = p.i
                /\ fchunks' = p.chunks
                /\ chunks' = chunks
    /\ UNCHANGED <<lvars, svars, dvars, hvars, inputs, items, currentChunk>>

\* one item of combineItemsIntoChunks' loop, up to the call of chunkByFixedSize
CombineStep ==
    /\ pc = "combine"
    /\ items # <<>>
    /\ items' = Tail(items)
    /\ LET a == CombineAppend(currentChunk, chunks, Head(items), maxSize, overlap)
       IN  IF Len(a.cur) > maxSize
           THEN LET p == FixedPrologue(a.cur, maxSize)
                IN  IF p.st = "return"
                    THEN LET b == CombineResplit(a.chunks, p.chunks)
                         IN  /\ pc' = "combine"
                             /\ currentChunk' = b.cur
                             /\ chunks' = b.chunks
                             /\ UNCHANGED fixedVars
                    ELSE /\ pc' = "fixed"
                         /\ caller' = "combine"
                         /\ ftext' = p.text
                         /\ i' = p.i
                         /\ fchunks' = p.chunks
                         /\ currentChunk' = a.cur
                         /\ chunks' = a.chunks
           ELSE /\ pc' = "combine"
                /\ currentChunk' = a.cur
                /\ chunks' = a.chunks
                /\ UNCHANGED fixedVars
    /\ UNCHANGED <<lvars, svars, dvars, hvars, inputs>>

\* combineItemsIntoChunks after its loop
CombineReturn ==
    /\ pc = "combine"
    /\ items = <<>>
    /\ pc' = "done"
    /\ chunks' = CombineFlush(currentChunk, chunks)
    /\ UNCHANGED <<lvars, svars, dvars, hvars, inputs, items, currentChunk, fixedVars>>

\* The sliding window emits at most one chunk per character when its stride
\* is positive; a loop that has emitted more is cut off here.
LoopCap == Len(fchunks) <= Len(ftext)

\* a pass of the sliding window loop that goes round again
FixedIterate ==
    /\ pc = "fixed"
    /\ LoopCap
    /\ LET r == FixedBody(ftext, maxSize, overlap, i, fchunks)
       IN  /\ r.st = "loop"
           /\ i' = r.i
           /\ fchunks' = r.chunks
    /\ UNCHANGED <<lvars, svars, dvars, hvars, inputs, pc, items, currentChunk, chunks, caller, ftext>>

\* a pass of the sliding window loop that leaves it: chunkByFixedSize returns
FixedReturn ==
    /\ pc = "fixed"
    /\ LET r == FixedBody(ftext, maxSize, overlap, i, fchunks)
       IN  /\ r.st = "return"
           /\ fchunks' = r.chunks
           /\ IF caller = "ChunkText"
              THEN pc' = "done" /\ chunks' = r.chunks /\ currentChunk' = currentChunk
              ELSE LET b == CombineResplit(chunks, r.chunks)
                   IN  /\ pc' = "combine"
                       /\ chunks' = b.chunks
                       /\ currentChunk' = b.cur
    /\ UNCHANGED <<lvars, svars, dvars, hvars, inputs, items, caller, ftext, i>>

\* a pass of the sliding window loop whose slice expression is out of range
FixedPanic ==
    /\ pc = "fixed"
    /\ FixedBody(ftext, maxSize, overlap, i, fchunks).st = "panic"
    /\ pc' = "panic"
    /\ UNCHANGED <<lvars, svars, dvars, hvars, inputs, items, currentChunk, chunks, fixedVars>>

Next ==
    \/ ChunkByParagraphCall
    \/ ChunkBySentenceCall
    \/ ChunkByFixedSizeCall
    \/ CombineStep
    \/ CombineReturn
    \/ FixedIterate
    \/ FixedReturn
    \/ FixedPanic

vars == <<cvars, lvars, svars, dvars, hvars>>

Spec == Init /\ [][Next]_vars

----------------------------------------------------------------------------
(* Properties of the chunker *)

KnownStrategy == strategy \in {"paragraph", "sentence", "fixed_size"}
ValidOptions == maxSize > 0 /\ 0 <= overlap /\ overlap < maxSize

\* C1: with a known strategy, maxSize > 0 and 0 <= overlap < maxSize, every
\* chunk ChunkText returns has length at most maxSize.
C1_ChunksWithinMaxSize ==
    (pc = "done" /\ KnownStrategy /\ ValidOptions)
        => \A k \in 1..Len(chunks) : Len(chunks[k]) <= maxSize

\* C2: with any strategy, maxSize > 0 and 0 <= overlap < maxSize, no chunk
\* ChunkText returns is empty or whitespace-only.
C2_NoBlankChunk ==
    (pc = "done" /\ ValidOptions)
        => \A k \in 1..Len(chunks) : TrimSpace(chunks[k]) # <<>>

\* C3: for every text and every options with maxSize > 0, overlap >= maxSize
\* included, ChunkText terminates with a chunk list: no slice expression is
\* out of range, and every pass of the sliding window that goes round again
\* moves the window forward, so that the loop cannot run forever.
C3_WindowAdvancesInRange ==
    [][ /\ pc' # "panic"
        /\ (pc = "fixed" /\ pc' = "fixed") => i' > i ]_vars

\* C9: paragraph strategy, every trimmed non-empty paragraph no longer than
\* maxSize: ChunkText returns exactly those paragraphs, in order, unmerged and
\* without overlap text, whatever the overlap.
C9_ParagraphShortCircuit ==
    LET paragraphs == CleanItems(SplitParagraphs(text))
    IN  ( /\ pc = "done"
          /\ strategy = "paragraph"
          /\ maxSize > 0
          /\ \A k \in 1..Len(paragraphs) : Len(paragraphs[k]) <= maxSize )
            => chunks = paragraphs

\* C9's case: two paragraphs that would fit in one chunk together, returned
\* apart although an overlap is asked for
C9_Witness ==
    /\ pc = "done"
    /\ strategy = "paragraph"
    /\ overlap > 0
    /\ text = <<"a", NL, NL, "B">>
    /\ maxSize = 3
    /\ chunks = << <<"a">>, <<"B">> >>

\* the k-th window (k from 0) of the sliding window over the trimmed text
Window(T, k) ==
    Slice(T, k * (maxSize - overlap), Min(k * (maxSize - overlap) + maxSize, Len(T)))

\* p is the beginning of s
StartsWith(s, p) == Len(p) <= Len(s) /\ SubSeq(s, 1, Len(p)) = p

\* C10: fixed-size strategy, trimmed text T longer than maxSize, 0 <= overlap <
\* maxSize: every chunk but the last is the k-th window, maxSize characters
\* from offset k * (maxSize - overlap) of T; the last chunk starts with its
\* window; the last overlap characters of a chunk are the first overlap
\* characters of the next window; "abcdefghij" with maxSize 4 and overlap 1
\* gives abcd, defg, ghij.
C10_FixedSizeWindows ==
    LET T == TrimSpace(text)
        n == Len(chunks)
    IN  (pc = "done" /\ strategy = "fixed_size" /\ ValidOptions /\ Len(T) > maxSize)
        =>  /\ n >= 1
            /\ \A k \in 0..(n - 2) :
                  /\ chunks[k + 1] = Window(T, k)
                  /\ Len(chunks[k + 1]) = maxSize
                  /\ StartsWith(Window(T, k + 1),
                                SubSeq(chunks[k + 1], maxSize - overlap + 1, maxSize))
            /\ StartsWith(chunks[n], Window(T, n - 1))
            /\ Window(T, n - 1) # <<>>
            /\ (T = <<"a", "b", "c", "d", "e", "f", "g", "h", "i", "j">>
                    /\ maxSize = 4 /\ overlap = 1)
                => chunks = << <<"a", "b", "c", "d">>, <<"d", "e", "f", "g">>,
                               <<"g", "h", "i", "j">> >>

\* C10's case: three overlapping windows
C10_Witness ==
    /\ pc = "done"
    /\ strategy = "fixed_size"
    /\ ValidOptions
    /\ overlap > 0
    /\ Len(TrimSpace(text)) > maxSize
    /\ Len(chunks) >= 3

----------------------------------------------------------------------------
(* The document loader: LoadFromFile, loadFromDirectory, loadFromTextFile   *)
(* and ProcessDocument.  The embedding service and the store are           *)
(* collaborators whose calls may fail; a call made with a cancelled        *)
(* context fails.                                                          *)

DefaultMaxChunkSize == 1000
DefaultChunkOverlap == 100

\* errors: what failed and, for a chunk's failure, the chunk index named
NoErr == [kind |-> "nil", chunk |-> -1]
Pending == [kind |-> "pending", chunk |-> -1]
Err(kind) == [kind |-> kind, chunk |-> -1]

\* "failed to generate embedding for chunk %d"
EmbedError(ci) == [kind |-> "embed", chunk |-> ci]

\* the chunk named as the progress line names it, from 1
StoreError_OneBased(ci) == [kind |-> "store", chunk |-> ci + 1]

\* "failed to store chunk %d"
StoreError(ci) == [kind |-> "store", chunk |-> ci]

\* a map[string]interface{} is a function on its keys; <<>> is the empty map
MapPut(m, key, value) ==
    [x \in (DOMAIN m) \cup {key} |-> IF x = key THEN value ELSE m[x]]

\* the fields written into the caller's map: meta := baseMetadata
BaseAfter_Aliased(baseMetadata, meta) == meta

\* the caller's map once a builder has returned meta: meta is made with
\* make() and filled by a copy loop, baseMetadata is only read
BaseAfter(baseMetadata, meta) == baseMetadata

\* chunk_index counted from 1
createChunkMetadata_OneBased(chunkIndex, totalChunks, baseMetadata) ==
    MapPut(MapPut(baseMetadata, "chunk_index", chunkIndex + 1),
           "chunk_count", totalChunks)

createChunkMetadata(chunkIndex, totalChunks, baseMetadata) ==
    MapPut(MapPut(baseMetadata, "chunk_index", chunkIndex),
           "chunk_count", totalChunks)

\* e is the entry at filePath; now stands for time.Now()
createFileMetadata(e, baseMetadata, now) ==
    MapPut(MapPut(MapPut(MapPut(MapPut(baseMetadata,
        "source", "file"),
        "file_path", e.path),
        "file_name", e.name),
        "file_ext", e.ext),
        "loaded_at", now)

\* the Content field left out of the struct literal
NewDocument_NoContent(content, metadata, id) ==
    [id |-> id, content |-> <<>>, metadata |-> metadata]

\* id stands for uuid.New()
NewDocument(content, metadata, id) ==
    [id |-> id, content |-> content, metadata |-> metadata]

\* strings.ToLower on a file extension
ToLower(ext) ==
    CASE ext = ".TXT" -> ".txt"
      [] ext = ".MD" -> ".md"
      [] OTHER -> ext

\* the load error handed on to filepath.Walk
WalkFnOnLoadError_Propagate(err) == err

\* what loadFromDirectory's walk function returns when loadFromTextFile fails
WalkFnOnLoadError(err) == NoErr

\* the outcomes of a collaborator call made now
CallOutcomes == IF cancelled THEN {FALSE} ELSE {TRUE, FALSE}

----------------------------------------------------------------------------
(* The inputs of a LoadFromFile call *)

Blank == <<Space>>
OneParagraph == <<"a">>
ThreeParagraphs == <<"a", NL, NL, "b", NL, NL, "c">>

FileEntry(path, name, ext, readable, content) ==
    [kind |-> "file", path |-> path, name |-> name, ext |-> ext,
     readable |-> readable, content |-> content]

Files ==
    { FileEntry("docs/a.txt", "a.txt", ".txt", FALSE, <<>>),
      FileEntry("docs/b.txt", "b.txt", ".txt", TRUE, Blank),
      FileEntry("docs/NOTES.TXT", "NOTES.TXT", ".TXT", TRUE, OneParagraph),
      FileEntry("docs/d.md", "d.md", ".md", TRUE, ThreeParagraphs),
      FileEntry("docs/e.json", "e.json", ".json", TRUE, OneParagraph),
      FileEntry("docs/f.log", "f.log", ".log", TRUE, OneParagraph) }

\* a subdirectory, and an entry filepath.Walk cannot visit (it calls the walk
\* function with an error)
Entries ==
    Files \cup
    { [kind |-> "dir", path |-> "docs/sub", name |-> "sub", ext |-> "",
       readable |-> TRUE, content |-> <<>>],
      [kind |-> "error", path |-> "docs/gone", name |-> "gone", ext |-> "",
       readable |-> FALSE, content |-> <<>>] }

Walks == UNION {[1..n -> Entries] : n \in 0..MaxFiles}

BaseMetas ==
    { <<>>,
      [loaded_by |-> "data_loader"],
      [loaded_by |-> "data_loader", chunk_index |-> 7],
      [source |-> "web"] }

\* no ChunkText call of its own is under way; the chunking options are the
\* loader's, DefaultChunkingOptions
ChunkerIdle ==
    /\ text = <<>>
    /\ strategy = "paragraph"
    /\ maxSize = DefaultMaxChunkSize
    /\ overlap = DefaultChunkOverlap
    /\ pc = "idle"
    /\ items = <<>>
    /\ currentChunk = <<>>
    /\ chunks = <<>>
    /\ caller = "none"
    /\ ftext = <<>>
    /\ i = 0
    /\ fchunks = <<>>

LoaderInit ==
    /\ ChunkerIdle
    /\ ServiceIdle
    /\ StoreIdle
    /\ HttpIdle
    /\ mode \in {"missing", "file", "directory"}
    /\ walk \in CASE mode = "missing" -> {<<>>}
                  [] mode = "file" -> {<<e>> : e \in Files}
                  [] mode = "directory" -> Walks
    /\ baseMeta \in BaseMetas
    /\ cancelled = FALSE
    /\ lpc = "start"
    /\ walkIdx = 0
    /\ docMeta = <<>>
    /\ docChunks = <<>>
    /\ chunkIdx = 0
    /\ embedding = 0
    /\ log = <<>>
    /\ stored = <<>>
    /\ warnings = <<>>
    /\ result = Pending

----------------------------------------------------------------------------
(* LoadFromFile, one file read or collaborator call per step *)

\* an entry of the log: a file read, a GenerateEmbedding call or a
\* StoreDocument call, with what was passed and what came back
Event(op, ci, ok, txt, vec, doc, base) ==
    [op |-> op, file |-> walkIdx, chunk |-> ci, ok |-> ok, text |-> txt,
     vec |-> vec, doc |-> doc, base |-> base]

NoDoc == NewDocument(<<>>, <<>>, 0)

\* loadFromTextFile has returned err for the entry at walkIdx: the single
\* file's error is LoadFromFile's result; the walk function logs a warning
\* for a failure and goes on
FinishFile(err) ==
    IF mode = "file"
    THEN [lpc |-> "done", walkIdx |-> walkIdx, warnings |-> warnings, result |-> err]
    ELSE LET ret == IF err # NoErr THEN WalkFnOnLoadError(err) ELSE NoErr
             w == IF err # NoErr
                  THEN Append(warnings, [file |-> walkIdx, err |-> err])
                  ELSE warnings
         IN  IF ret # NoErr
             THEN [lpc |-> "done", walkIdx |-> walkIdx, warnings |-> w, result |-> ret]
             ELSE [lpc |-> "walk", walkIdx |-> walkIdx + 1, warnings |-> w,
                   result |-> result]

config == <<mode, walk, baseMeta>>

LoadFromFile ==
    /\ lpc = "start"
    /\ CASE mode = "missing" ->
              /\ lpc' = "done"
              /\ result' = Err("access")
              /\ UNCHANGED <<walkIdx, docMeta>>
         [] mode = "directory" ->
              /\ lpc' = "walk"
              /\ walkIdx' = 1
              /\ UNCHANGED <<result, docMeta>>
         [] mode = "file" ->
              IF ToLower(walk[1].ext) = ".json"
              THEN /\ lpc' = "done"
                   /\ result' = Err("json")
                   /\ UNCHANGED <<walkIdx, docMeta>>
              ELSE /\ lpc' = "load"
                   /\ walkIdx' = 1
                   /\ docMeta' = baseMeta
                   /\ result' = result
    /\ UNCHANGED <<cvars, svars, dvars, hvars, config, cancelled, docChunks, chunkIdx, embedding, log,
                   stored, warnings>>

\* loadFromDirectory's walk function, up to its call of loadFromTextFile
WalkFn ==
    /\ lpc = "walk"
    /\ walkIdx <= Len(walk)
    /\ LET e == walk[walkIdx]
       IN  CASE e.kind = "error" ->
                  /\ lpc' = "done"
                  /\ result' = Err("walk")
                  /\ UNCHANGED <<walkIdx, docMeta, baseMeta>>
             [] e.kind = "dir" ->
                  /\ walkIdx' = walkIdx + 1
                  /\ UNCHANGED <<lpc, result, docMeta, baseMeta>>
             [] e.kind = "file" ->
                  IF ToLower(e.ext) \in {".txt", ".md"}
                  THEN LET fileMeta == createFileMetadata(e, baseMeta, Len(log))
                       IN  /\ lpc' = "load"
                           /\ docMeta' = fileMeta
                           /\ baseMeta' = BaseAfter(baseMeta, fileMeta)
                           /\ UNCHANGED <<walkIdx, result>>
                  ELSE /\ walkIdx' = walkIdx + 1
                       /\ UNCHANGED <<lpc, result, docMeta, baseMeta>>
    /\ UNCHANGED <<cvars, svars, dvars, hvars, mode, walk, cancelled, docChunks, chunkIdx, embedding,
                   log, stored, warnings>>

\* filepath.Walk has visited every entry
WalkReturn ==
    /\ lpc = "walk"
    /\ walkIdx > Len(walk)
    /\ lpc' = "done"
    /\ result' = NoErr
    /\ UNCHANGED <<cvars, svars, dvars, hvars, config, cancelled, walkIdx, docMeta, docChunks, chunkIdx,
                   embedding, log, stored, warnings>>

\* loadFromTextFile, and ProcessDocument up to its loop: the file is read,
\* and its content checked and chunked
LoadFromTextFile ==
    /\ lpc = "load"
    /\ LET e == walk[walkIdx]
           meta == createFileMetadata(e, docMeta, Len(log))
           blank == TrimSpace(e.content) = <<>>
           cs == IF e.readable /\ ~blank
                 THEN ChunkText(e.content, strategy, maxSize, overlap)
                 ELSE <<>>
           fin == FinishFile(IF ~e.readable THEN Err("read")
                             ELSE IF blank THEN Err("empty")
                             ELSE NoErr)
       IN  /\ log' = Append(log, Event("read", -1, e.readable, <<>>, 0, NoDoc, <<>>))
           /\ IF e.readable /\ ~blank /\ Len(cs) > 0
              THEN /\ docMeta' = meta
                   /\ docChunks' = cs
                   /\ chunkIdx' = 0
                   /\ lpc' = "embed"
                   /\ UNCHANGED <<walkIdx, warnings, result>>
              ELSE /\ lpc' = fin.lpc
                   /\ walkIdx' = fin.walkIdx
                   /\ warnings' = fin.warnings
                   /\ result' = fin.result
                   /\ UNCHANGED <<docMeta, docChunks, chunkIdx>>
           /\ baseMeta' = IF e.readable /\ mode = "file"
                          THEN BaseAfter(baseMeta, meta)
                          ELSE baseMeta
    /\ UNCHANGED <<cvars, svars, dvars, hvars, mode, walk, cancelled, embedding, stored>>

\* ProcessDocument's loop: the embedding of chunk chunkIdx is requested
GenerateEmbedding ==
    /\ lpc = "embed"
    /\ \E ok \in CallOutcomes :
          LET vector == IF ok THEN Len(log) + 1 ELSE 0
              fin == FinishFile(EmbedError(chunkIdx))
          IN  /\ log' = Append(log, Event("embed", chunkIdx, ok,
                                          docChunks[chunkIdx + 1], vector, NoDoc, <<>>))
              /\ embedding' = vector
              /\ IF ok
                 THEN /\ lpc' = "store"
                      /\ UNCHANGED <<walkIdx, warnings, result>>
                 ELSE /\ lpc' = fin.lpc
                      /\ walkIdx' = fin.walkIdx
                      /\ warnings' = fin.warnings
                      /\ result' = fin.result
    /\ UNCHANGED <<cvars, svars, dvars, hvars, config, cancelled, docMeta, docChunks, chunkIdx, stored>>

\* ProcessDocument's loop: the document of chunk chunkIdx is built and stored
StoreDocument ==
    /\ lpc = "store"
    /\ \E ok \in CallOutcomes :
          LET chunkMeta == createChunkMetadata(chunkIdx, Len(docChunks), docMeta)
              doc == NewDocument(docChunks[chunkIdx + 1], chunkMeta, Len(log) + 1)
              last == chunkIdx + 1 >= Len(docChunks)
              fin == FinishFile(IF ok THEN NoErr ELSE StoreError(chunkIdx))
          IN  /\ log' = Append(log, Event("store", chunkIdx, ok, doc.content,
                                          embedding, doc, docMeta))
              /\ stored' = IF ok
                           THEN Append(stored, [doc |-> doc, vector |-> embedding])
                           ELSE stored
              /\ IF ok /\ ~last
                 THEN /\ chunkIdx' = chunkIdx + 1
                      /\ lpc' = "embed"
                      /\ UNCHANGED <<walkIdx, warnings, result>>
                 ELSE /\ lpc' = fin.lpc
                      /\ walkIdx' = fin.walkIdx
                      /\ warnings' = fin.warnings
                      /\ result' = fin.result
                      /\ chunkIdx' = chunkIdx
              /\ docMeta' = BaseAfter(docMeta, chunkMeta)
    /\ UNCHANGED <<cvars, svars, dvars, hvars, config, cancelled, docChunks, embedding>>

\* SIGINT or SIGTERM: main's goroutine cancels the context
Cancel ==
    /\ lpc \notin {"idle", "done"}
    /\ ~cancelled
    /\ cancelled' = TRUE
    /\ UNCHANGED <<cvars, svars, dvars, hvars, config, lpc, walkIdx, docMeta, docChunks, chunkIdx,
                   embedding, log, stored, warnings, result>>

LoaderNext ==
    \/ LoadFromFile
    \/ WalkFn
    \/ WalkReturn
    \/ LoadFromTextFile
    \/ GenerateEmbedding
    \/ StoreDocument
    \/ Cancel

LoaderSpec == LoaderInit /\ [][LoaderNext]_vars

----------------------------------------------------------------------------
(* Properties of the document loader *)

\* the collaborator calls made for the entry at position f, in order
CallsOf(f) == SelectSeq(log, LAMBDA e : e.file = f /\ e.op # "read")

\* the chunks of the entry at position f
ChunksOf(f) == ChunkText(walk[f].content, strategy, maxSize, overlap)

\* the processing of the entry at position f is over
Finished(f) == lpc = "done" \/ walkIdx > f

\* the entry at position f was read and its read, its empty-content check or
\* one of its collaborator calls failed
FileFailure(f) ==
    \E p \in 1..Len(log) :
        /\ log[p].file = f
        /\ \/ ~log[p].ok
           \/ log[p].op = "read" /\ TrimSpace(walk[f].content) = <<>>

HasWarning(f) == \E w \in 1..Len(warnings) : warnings[w].file = f
WasRead(f) == \E p \in 1..Len(log) : log[p].file = f /\ log[p].op = "read"
IsTextFile(e) == e.kind = "file" /\ ToLower(e.ext) \in {".txt", ".md"}

\* C4: when the embedding request or the StoreDocument call of chunk c of a
\* file fails, the error returned by ProcessDocument names chunk c, no call
\* is made for a later chunk of the file (none at all after the failure), and
\* the documents stored for chunks 0..c-1 stay in the store.
C4_ChunkFailureAborts ==
    \A p \in 1..Len(log) :
        (log[p].op \in {"embed", "store"} /\ ~log[p].ok) =>
            LET f == log[p].file
                c == log[p].chunk
                err == [kind |-> log[p].op, chunk |-> c]
            IN  /\ IF mode = "file"
                   THEN result = err
                   ELSE \E w \in 1..Len(warnings) :
                            warnings[w] = [file |-> f, err |-> err]
                /\ \A q \in (p + 1)..Len(log) : log[q].file # f
                /\ \A q \in 1..Len(log) : log[q].file = f => log[q].chunk <= c
                /\ \A j \in 0..(c - 1) :
                      \E q \in 1..(p - 1) :
                          /\ log[q].file = f
                          /\ log[q].op = "store"
                          /\ log[q].chunk = j
                          /\ log[q].ok
                          /\ \E n \in 1..Len(stored) : stored[n].doc = log[q].doc

\* C4's case: the store of the second of three chunks has failed, the first
\* chunk's document is stored, and the call is over
C4_Witness ==
    /\ lpc = "done"
    /\ Len(stored) >= 1
    /\ \E p \in 1..Len(log) :
          /\ log[p].op = "store"
          /\ ~log[p].ok
          /\ log[p].chunk = 1
          /\ Len(ChunksOf(log[p].file)) = 3

\* C5: once the context is cancelled, no new file and no new chunk begins
\* processing: no file is read or chunked and no embedding is requested any
\* more; the only call still made is the store of the chunk whose embedding
\* had been returned when the cancellation came.
C5_NoWorkAfterCancel ==
    [][ (cancelled /\ log' # log) =>
            /\ Len(log) > 0
            /\ log[Len(log)].op = "embed"
            /\ log'[Len(log')].op = "store"
            /\ log'[Len(log')].file = log[Len(log)].file
            /\ log'[Len(log')].chunk = log[Len(log)].chunk ]_vars

\* C6: the calls made for a file are embed(chunk 0), store(chunk 0),
\* embed(chunk 1), store(chunk 1), ... in this order; each store passes a
\* document whose content is its chunk, with the vector the embedding request
\* of that chunk returned, and a successful store holds exactly that pair; a
\* file of N chunks ingested without failure has made 2N calls.
C6_SequentialEmbedStore ==
    \A f \in 1..Len(walk) :
        LET E == CallsOf(f)
            cs == ChunksOf(f)
        IN  /\ \A q \in 1..Len(E) :
                  /\ E[q].op = IF q % 2 = 1 THEN "embed" ELSE "store"
                  /\ E[q].chunk = (q - 1) \div 2
                  /\ E[q].chunk < Len(cs)
                  /\ E[q].text = cs[E[q].chunk + 1]
                  /\ (q % 2 = 0) =>
                        /\ E[q - 1].ok
                        /\ E[q].vec = E[q - 1].vec
                        /\ E[q].doc.content = cs[E[q].chunk + 1]
                        /\ E[q].ok =>
                              \E n \in 1..Len(stored) :
                                  stored[n] = [doc |-> E[q].doc, vector |-> E[q - 1].vec]
            /\ (Finished(f) /\ WasRead(f) /\ ~FileFailure(f)) => Len(E) = 2 * Len(cs)

\* C6's case: a file of three chunks ingested without failure
C6_Witness ==
    /\ lpc = "done"
    /\ \E f \in 1..Len(walk) :
          /\ Len(ChunksOf(f)) = 3
          /\ ~FileFailure(f)
          /\ Len(CallsOf(f)) = 6
          /\ Len(stored) >= 3

\* the StoreDocument call that stored the n-th document of the store
StoreCallOf(n) == log[stored[n].doc.id]

\* C7 as stated: the document stored for chunk i of N has chunk_index = i and
\* chunk_count = N, so 0 <= chunk_index < chunk_count, and every entry of the
\* base metadata is in it.
C7_BaseMetadataKept ==
    \A n \in 1..Len(stored) :
        LET ev == StoreCallOf(n)
            m == stored[n].doc.metadata
        IN  /\ m["chunk_index"] = ev.chunk
            /\ m["chunk_count"] = Len(ChunksOf(ev.file))
            /\ 0 <= m["chunk_index"] /\ m["chunk_index"] < m["chunk_count"]
            /\ \A key \in DOMAIN ev.base :
                  key \in DOMAIN m /\ m[key] = ev.base[key]

\* C7, amended: as above, for every entry of the base metadata under a key
\* other than chunk_index and chunk_count.
C7_ChunkMetadata ==
    \A n \in 1..Len(stored) :
        LET ev == StoreCallOf(n)
            m == stored[n].doc.metadata
        IN  /\ ev.op = "store" /\ ev.ok /\ ev.doc = stored[n].doc
            /\ m["chunk_index"] = ev.chunk
            /\ m["chunk_count"] = Len(ChunksOf(ev.file))
            /\ 0 <= m["chunk_index"] /\ m["chunk_index"] < m["chunk_count"]
            /\ \A key \in (DOMAIN ev.base) \ {"chunk_index", "chunk_count"} :
                  key \in DOMAIN m /\ m[key] = ev.base[key]

\* C7's case: the last of three chunks is stored, the base metadata holding
\* the caller's loaded_by and a chunk_index of its own
C7_Witness ==
    \E n \in 1..Len(stored) :
        /\ stored[n].doc.metadata["chunk_index"] = 2
        /\ stored[n].doc.metadata["chunk_count"] = 3
        /\ "loaded_by" \in DOMAIN StoreCallOf(n).base
        /\ "chunk_index" \in DOMAIN StoreCallOf(n).base

WalkErrors == {f \in 1..Len(walk) : walk[f].kind = "error"}

\* the failure of a single file is LoadFromFile's error
SingleFileFailureReturned ==
    (mode = "file" /\ lpc = "done" /\ FileFailure(1))
        => result.kind \in {"read", "empty", "embed", "store"}

\* C8 as stated: given a directory with a failing file, LoadFromFile logs a
\* warning for it, still processes every .txt/.md file of the walk and
\* returns no error; given a single file, the failure is returned.
C8_DirectoryAlwaysCompletes ==
    /\ (mode = "directory" /\ lpc = "done" /\ \E f \in 1..Len(walk) : FileFailure(f))
          => /\ result = NoErr
             /\ \A f \in 1..Len(walk) : FileFailure(f) => HasWarning(f)
             /\ \A f \in 1..Len(walk) : IsTextFile(walk[f]) => WasRead(f)
    /\ SingleFileFailureReturned

\* C8, amended: a failing file is skipped with a warning and does not end the
\* walk; every .txt/.md file is processed and no error is returned unless
\* filepath.Walk hands the walk function an error for an entry, which ends the
\* walk there and is returned; a single file's failure is returned.
C8_FileFailureSkipped ==
    /\ (mode = "directory" /\ lpc = "done")
          => LET upto == IF WalkErrors = {} THEN Len(walk) ELSE SetMin(WalkErrors) - 1
             IN  /\ result = IF WalkErrors = {} THEN NoErr ELSE Err("walk")
                 /\ \A f \in 1..Len(walk) : FileFailure(f) => HasWarning(f)
                 /\ \A f \in 1..upto : IsTextFile(walk[f]) => WasRead(f)
    /\ SingleFileFailureReturned

\* C8's case: the first file of a directory cannot be read, the second is
\* ingested all the same, and no error is returned
C8_Witness ==
    /\ mode = "directory"
    /\ lpc = "done"
    /\ Len(walk) = 2
    /\ FileFailure(1)
    /\ HasWarning(1)
    /\ IsTextFile(walk[2])
    /\ Len(CallsOf(2)) = 6
    /\ ~FileFailure(2)
    /\ result = NoErr

----------------------------------------------------------------------------
(* Properties of the chunker, continued *)

\* the index (from 0) of the sliding window's final window over T: the first
\* window that reaches the end of T
FinalWindow(T) ==
    CHOOSE k \in 0..Len(T) :
        /\ k * (maxSize - overlap) + maxSize >= Len(T)
        /\ \A j \in 0..(k - 1) : j * (maxSize - overlap) + maxSize < Len(T)

\* what chunkByFixedSize returns for a text longer than maxSize when the
\* final window is merged (tiny) and when it is not
FixedResultIs(T, tiny) ==
    LET K == FinalWindow(T)
    IN  IF tiny
        THEN /\ Len(chunks) = K
             /\ chunks[K] = Window(T, K - 1) \o <<Space>> \o Window(T, K)
        ELSE /\ Len(chunks) = K + 1
             /\ chunks[K + 1] = Window(T, K)

FixedSizeLoopDone ==
    /\ pc = "done"
    /\ strategy = "fixed_size"
    /\ ValidOptions
    /\ Len(TrimSpace(text)) > maxSize

\* C11 as stated: fixed-size strategy: a final window shorter than a quarter
\* of maxSize (4 * length < maxSize) that is not the first window is merged
\* into the previous chunk and not emitted on its own, so that of several
\* chunks returned none is shorter than a quarter of maxSize.
C11_TailBelowQuarterMerged ==
    FixedSizeLoopDone =>
        LET T == TrimSpace(text)
            K == FinalWindow(T)
        IN  /\ FixedResultIs(T, K > 0 /\ 4 * Len(Window(T, K)) < maxSize)
            /\ Len(chunks) > 1 =>
                  \A k \in 1..Len(chunks) : 4 * Len(chunks[k]) >= maxSize

\* C11, amended: the same with the quarter of maxSize rounded down: the final
\* window is merged when its length is less than maxSize div 4, and of several
\* chunks returned none is shorter than maxSize div 4.
C11_TailMerge ==
    FixedSizeLoopDone =>
        LET T == TrimSpace(text)
            K == FinalWindow(T)
        IN  /\ FixedResultIs(T, K > 0 /\ Len(Window(T, K)) < maxSize \div 4)
            /\ Len(chunks) > 1 =>
                  \A k \in 1..Len(chunks) : Len(chunks[k]) >= maxSize \div 4

\* C11's case: the ninth character is a final window of length 1 < 8 div 4
\* and ends up in the first chunk
C11_Witness ==
    /\ FixedSizeLoopDone
    /\ maxSize = 8
    /\ overlap = 0
    /\ Len(TrimSpace(text)) = 9
    /\ Len(chunks) = 1
    /\ Len(chunks[1]) = 10

\* C12: fixed-size strategy, trimmed text non-empty and no longer than
\* maxSize: exactly one chunk is returned, the trimmed text, whatever the
\* overlap; chunking that chunk again with the same options returns it
\* unchanged.
C12_ShortTextOneChunk ==
    LET T == TrimSpace(text)
    IN  (pc = "done" /\ strategy = "fixed_size" /\ T # <<>> /\ Len(T) <= maxSize)
            => /\ chunks = <<T>>
               /\ ChunkText(chunks[1], strategy, maxSize, overlap) = chunks

\* C12's case: a text with surrounding whitespace whose trimmed form is
\* exactly maxSize long, chunked with an overlap that is not below maxSize
C12_Witness ==
    /\ pc = "done"
    /\ strategy = "fixed_size"
    /\ text # TrimSpace(text)
    /\ Len(TrimSpace(text)) = maxSize
    /\ overlap >= maxSize
    /\ chunks = <<TrimSpace(text)>>

\* C13: paragraph, sentence and fixed-size strategy alike: for an empty or
\* whitespace-only text ChunkText returns the empty chunk list at once,
\* without a panic, for every maxSize > 0 and every overlap.
C13_BlankTextNoChunks ==
    (KnownStrategy /\ TrimSpace(text) = <<>> /\ pc # "call")
        => pc = "done" /\ chunks = <<>>

\* C13's case: a text of blanks around a paragraph break, chunked by
\* paragraph with an overlap that is not below maxSize
C13_Witness ==
    /\ pc = "done"
    /\ strategy = "paragraph"
    /\ Len(text) >= 3
    /\ TrimSpace(text) = <<>>
    /\ \E k \in 1..(Len(text) - 1) : text[k] = NL /\ text[k + 1] = NL
    /\ overlap >= maxSize
    /\ chunks = <<>>

----------------------------------------------------------------------------
(* The RAG service: DefaultRAGService.AddDocument, SearchSimilar and Query. *)
(* Strings are TLA+ strings.  The embedding service, the vector store and   *)
(* the generation API are collaborators: a call succeeds with some value or *)
(* fails.                                                                   *)

MaxResults == 2

DefaultLimit == 5
NoThreshold == 0

ServiceOps == {"AddDocument", "SearchSimilar", "Query"}
ServiceTexts == {"", "go"}
ServiceMetas == {<<>>, [source |-> "api"]}
Limits == {-1, 0, 1, MaxResults}
Vectors == {11, 22}
Uuids == {1, 2}
Answers == {"yes"}

\* uuid.UUID.String()
UuidString(u) == "uuid-" \o ToString(u)

\* the rows the store can return: a document and its similarity
SearchResult(n) ==
    [document |-> [id |-> n, content |-> "text " \o ToString(n), metadata |-> <<>>],
     similarity |-> n]

DistinctResults(rs) ==
    \A a, b \in 1..Len(rs) : a # b => rs[a] # rs[b]

\* what FindSimilar can return for a limit: at most limit distinct rows, in
\* the store's order
ResultLists(lim) ==
    {rs \in UNION {[1..n -> {SearchResult(m) : m \in 1..MaxResults}] : n \in 0..MaxResults} :
        Len(rs) <= lim /\ DistinctResults(rs)}

NoDocument == NewDocument("", <<>>, 0)

\* a collaborator call: what was passed and what came back
Call(op, ok, txt, vec, lim, threshold, doc, results, answer) ==
    [op |-> op, ok |-> ok, text |-> txt, vec |-> vec, limit |-> lim,
     threshold |-> threshold, doc |-> doc, results |-> results, answer |-> answer]

EmbedCall(ok, txt, vec) == Call("GenerateEmbedding", ok, txt, vec, 0, 0, NoDocument, <<>>, "")
StoreCall(ok, doc, vec) == Call("StoreDocument", ok, "", vec, 0, 0, doc, <<>>, "")
FindCall(ok, vec, lim, threshold, results) ==
    Call("FindSimilar", ok, "", vec, lim, threshold, NoDocument, results, "")
GenerateCall(ok, prompt, answer) ==
    Call("generate", ok, prompt, 0, 0, 0, NoDocument, <<>>, answer)

\* a returned error, and the values returned without one
SvcError(kind) == [err |-> kind]
SvcId(id) == [err |-> "nil", id |-> id]
SvcResults(results) == [err |-> "nil", results |-> results]
SvcResponse(answer, docs) == [err |-> "nil", answer |-> answer, documents |-> docs]

\* the default limit substituted only for a negative limit
EffectiveLimit_NegativeOnly(lim) == IF lim < 0 THEN DefaultLimit ELSE lim

\* SearchSimilar: if limit <= 0 { limit = 5 }
EffectiveLimit(lim) == IF lim <= 0 THEN DefaultLimit ELSE lim

\* the documents of the results, last result first
ExtractDocuments_Reversed(results) ==
    [k \in 1..Len(results) |-> results[Len(results) + 1 - k].document]

\* Query: the documents of the results, in order
ExtractDocuments(results) == [k \in 1..Len(results) |-> results[k].document]

\* the document number taken from the loop index as it is, from 0
DocumentNumber_ZeroBased(k) == k - 1

\* augmentQueryWithContext: i+1 for the k-th document (k from 1)
DocumentNumber(k) == k

\* augmentQueryWithContext's loop over documents k..
RECURSIVE ContextBlocks(_, _)
ContextBlocks(docs, k) ==
    IF k > Len(docs) THEN ""
    ELSE "Document " \o ToString(DocumentNumber(k)) \o ":\n" \o docs[k].content
             \o "\n\n" \o ContextBlocks(docs, k + 1)

augmentQueryWithContext(query, docs) ==
    IF Len(docs) = 0 THEN query
    ELSE "Context information is below.\n"
         \o "---------------------\n"
         \o ContextBlocks(docs, 1)
         \o "---------------------\n"
         \o "Given the context information and not prior knowledge, answer the following query:\n"
         \o query

ServiceInit ==
    /\ ChunkerIdle
    /\ LoaderIdle
    /\ StoreIdle
    /\ HttpIdle
    /\ svcOp \in ServiceOps
    /\ svcArg \in ServiceTexts
    /\ svcMeta \in ServiceMetas
    /\ svcLimitArg \in Limits
    /\ svcLimit = svcLimitArg
    /\ svcPc = "start"
    /\ svcDoc = NoDocument
    /\ svcVector = 0
    /\ svcFound = <<>>
    /\ svcCalls = <<>>
    /\ svcRet = SvcError("pending")

----------------------------------------------------------------------------
(* The RAG service, one collaborator call per step *)

svcInputs == <<svcOp, svcArg, svcMeta, svcLimitArg>>

\* AddDocument without its test of the content
AddDocument_Unchecked ==
    /\ svcPc = "start"
    /\ svcOp = "AddDocument"
    /\ svcPc' = "add_embed"
    /\ \E u \in Uuids : svcDoc' = NewDocument(svcArg, svcMeta, u)
    /\ UNCHANGED <<cvars, lvars, dvars, hvars, svcInputs, svcLimit, svcVector, svcFound, svcCalls,
                   svcRet>>

\* AddDocument up to the embedding request
AddDocument ==
    /\ svcPc = "start"
    /\ svcOp = "AddDocument"
    /\ IF svcArg = ""
       THEN /\ svcPc' = "done"
            /\ svcRet' = SvcError("document content cannot be empty")
            /\ svcDoc' = svcDoc
       ELSE /\ svcPc' = "add_embed"
            /\ \E u \in Uuids : svcDoc' = NewDocument(svcArg, svcMeta, u)
            /\ svcRet' = svcRet
    /\ UNCHANGED <<cvars, lvars, dvars, hvars, svcInputs, svcLimit, svcVector, svcFound, svcCalls>>

\* AddDocument: GenerateEmbedding(ctx, content), its error dropped
AddDocumentEmbed_ErrorIgnored ==
    /\ svcPc = "add_embed"
    /\ \E ok \in BOOLEAN, v \in Vectors :
          LET vec == IF ok THEN v ELSE 0
          IN  /\ svcCalls' = Append(svcCalls, EmbedCall(ok, svcArg, vec))
              /\ svcVector' = vec
    /\ svcPc' = "add_store"
    /\ UNCHANGED <<cvars, lvars, dvars, hvars, svcInputs, svcLimit, svcDoc, svcFound, svcRet>>

\* AddDocument: GenerateEmbedding(ctx, content)
AddDocumentEmbed ==
    /\ svcPc = "add_embed"
    /\ \E ok \in BOOLEAN, v \in Vectors :
          LET vec == IF ok THEN v ELSE 0
          IN  /\ svcCalls' = Append(svcCalls, EmbedCall(ok, svcArg, vec))
              /\ svcVector' = vec
              /\ IF ok
                 THEN svcPc' = "add_store" /\ svcRet' = svcRet
                 ELSE svcPc' = "done" /\ svcRet' = SvcError("failed to generate embedding")
    /\ UNCHANGED <<cvars, lvars, dvars, hvars, svcInputs, svcLimit, svcDoc, svcFound>>

\* AddDocument: StoreDocument(ctx, doc, embedding) and the return
AddDocumentStore ==
    /\ svcPc = "add_store"
    /\ \E ok \in BOOLEAN :
          /\ svcCalls' = Append(svcCalls, StoreCall(ok, svcDoc, svcVector))
          /\ svcRet' = IF ok THEN SvcId(UuidString(svcDoc.id))
                       ELSE SvcError("failed to store document")
    /\ svcPc' = "done"
    /\ UNCHANGED <<cvars, lvars, dvars, hvars, svcInputs, svcLimit, svcDoc, svcVector, svcFound>>

\* Query up to its call of SearchSimilar
Query ==
    /\ svcPc = "start"
    /\ svcOp = "Query"
    /\ IF svcArg = ""
       THEN svcPc' = "done" /\ svcRet' = SvcError("query cannot be empty")
       ELSE svcPc' = "search" /\ svcRet' = svcRet
    /\ UNCHANGED <<cvars, lvars, dvars, hvars, svcInputs, svcLimit, svcDoc, svcVector, svcFound,
                   svcCalls>>

\* SearchSimilar, called by the client or by Query, up to the embedding request
SearchSimilar ==
    /\ \/ svcPc = "start" /\ svcOp = "SearchSimilar"
       \/ svcPc = "search"
    /\ IF svcArg = ""
       THEN /\ svcPc' = "done"
            /\ svcRet' = SvcError("query cannot be empty")
            /\ svcLimit' = svcLimit
       ELSE /\ svcPc' = "search_embed"
            /\ svcLimit' = EffectiveLimit(svcLimit)
            /\ svcRet' = svcRet
    /\ UNCHANGED <<cvars, lvars, dvars, hvars, svcInputs, svcDoc, svcVector, svcFound, svcCalls>>

\* SearchSimilar: GenerateEmbedding(ctx, query)
SearchSimilarEmbed ==
    /\ svcPc = "search_embed"
    /\ \E ok \in BOOLEAN, v \in Vectors :
          LET vec == IF ok THEN v ELSE 0
          IN  /\ svcCalls' = Append(svcCalls, EmbedCall(ok, svcArg, vec))
              /\ svcVector' = vec
              /\ IF ok
                 THEN svcPc' = "find" /\ svcRet' = svcRet
                 ELSE /\ svcPc' = "done"
                      /\ svcRet' = SvcError(IF svcOp = "Query"
                                            THEN "failed to retrieve documents"
                                            ELSE "failed to generate query embedding")
    /\ UNCHANGED <<cvars, lvars, dvars, hvars, svcInputs, svcLimit, svcDoc, svcFound>>

\* SearchSimilar: FindSimilar(ctx, vectorQuery) and the return, to the client
\* or into Query
SearchSimilarFind ==
    /\ svcPc = "find"
    /\ \E ok \in BOOLEAN, rs \in ResultLists(svcLimit) :
          LET results == IF ok THEN rs ELSE <<>>
          IN  /\ svcCalls' = Append(svcCalls,
                    FindCall(ok, svcVector, svcLimit, NoThreshold, results))
              /\ svcFound' = results
              /\ IF ~ok
                 THEN /\ svcPc' = "done"
                      /\ svcRet' = SvcError(IF svcOp = "Query"
                                            THEN "failed to retrieve documents"
                                            ELSE "failed to find similar documents")
                 ELSE IF svcOp = "Query"
                 THEN svcPc' = "generate" /\ svcRet' = svcRet
                 ELSE svcPc' = "done" /\ svcRet' = SvcResults(results)
    /\ UNCHANGED <<cvars, lvars, dvars, hvars, svcInputs, svcLimit, svcDoc, svcVector>>

\* Query after SearchSimilar: the prompt is built, sent to the generation API,
\* and the response returned
QueryGenerate ==
    /\ svcPc = "generate"
    /\ LET docs == ExtractDocuments(svcFound)
           augmentedQuery == augmentQueryWithContext(svcArg, docs)
       IN  \E ok \in BOOLEAN, a \in Answers :
              LET answer == IF ok THEN a ELSE ""
              IN  /\ svcCalls' = Append(svcCalls, GenerateCall(ok, augmentedQuery, answer))
                  /\ svcRet' = IF ok THEN SvcResponse(answer, docs)
                               ELSE SvcError("failed to generate response")
    /\ svcPc' = "done"
    /\ UNCHANGED <<cvars, lvars, dvars, hvars, svcInputs, svcLimit, svcDoc, svcVector, svcFound>>

ServiceNext ==
    \/ AddDocument
    \/ AddDocumentEmbed
    \/ AddDocumentStore
    \/ Query
    \/ SearchSimilar
    \/ SearchSimilarEmbed
    \/ SearchSimilarFind
    \/ QueryGenerate

ServiceSpec == ServiceInit /\ [][ServiceNext]_vars

----------------------------------------------------------------------------
(* A request: a call of a RAGService method or of LoadFromFile *)

RequestInit == ServiceInit \/ LoaderInit
RequestNext == ServiceNext \/ LoaderNext
RequestSpec == RequestInit /\ [][RequestNext]_vars

\* the error of an ended RAGService call, "nil" for none
IsValidationError(ret) ==
    ret.err \in {"document content cannot be empty", "query cannot be empty"}

\* C14: AddDocument with empty content, SearchSimilar and Query with an empty
\* query, and ProcessDocument with content that is empty once trimmed return
\* an error at once, before any call of the embedding service, the store or
\* the generation API.
C14_ValidationFirst ==
    /\ (svcOp \in ServiceOps /\ svcArg = "")
          => /\ svcCalls = <<>>
             /\ svcPc \in {"start", "done"}
             /\ svcPc = "done" => IsValidationError(svcRet)
    /\ \A f \in 1..Len(walk) :
          (WasRead(f) /\ walk[f].readable /\ TrimSpace(walk[f].content) = <<>>)
              => /\ CallsOf(f) = <<>>
                 /\ Finished(f)
                 /\ IF mode = "file"
                    THEN result = Err("empty")
                    ELSE \E w \in 1..Len(warnings) :
                             warnings[w] = [file |-> f, err |-> Err("empty")]

\* C14's case: AddDocument has returned for an empty content
C14_Witness ==
    /\ svcOp = "AddDocument"
    /\ svcArg = ""
    /\ svcPc = "done"
    /\ svcRet = SvcError("document content cannot be empty")
    /\ svcCalls = <<>>

----------------------------------------------------------------------------
(* Properties of the RAG service *)

BothCallsOk == Len(svcCalls) = 2 /\ svcCalls[1].ok /\ svcCalls[2].ok

\* C15: AddDocument with non-empty content requests one embedding, of the
\* content, then calls StoreDocument once, with a document of that content and
\* the vector returned, and returns that document's identifier, which is not
\* empty; StoreDocument is not called after a failed embedding request; when
\* either call fails an error is returned and no identifier.
C15_AddDocument ==
    (svcOp = "AddDocument" /\ svcArg # "") =>
        /\ Len(svcCalls) <= 2
        /\ Len(svcCalls) >= 1 =>
              /\ svcCalls[1].op = "GenerateEmbedding"
              /\ svcCalls[1].text = svcArg
        /\ Len(svcCalls) = 2 =>
              /\ svcCalls[1].ok
              /\ svcCalls[2].op = "StoreDocument"
              /\ svcCalls[2].doc.content = svcArg
              /\ svcCalls[2].vec = svcCalls[1].vec
        /\ svcPc = "done" =>
              /\ Len(svcCalls) >= 1
              /\ svcCalls[1].ok => Len(svcCalls) = 2
              /\ IF BothCallsOk
                 THEN /\ svcRet = SvcId(UuidString(svcCalls[2].doc.id))
                      /\ svcRet.id # ""
                 ELSE /\ svcRet.err \notin {"nil", "pending"}
                      /\ "id" \notin DOMAIN svcRet

\* C15's case: AddDocument has stored a document and returned its identifier
C15_Witness ==
    /\ svcOp = "AddDocument"
    /\ svcPc = "done"
    /\ BothCallsOk
    /\ svcRet.err = "nil"

\* C16: SearchSimilar with a non-empty query passes to FindSimilar the vector
\* GenerateEmbedding returned for the query, threshold 0, and the given limit
\* if it is > 0, else 5; it returns the list FindSimilar returned, unchanged.
C16_SearchSimilar ==
    (svcOp \in {"SearchSimilar", "Query"} /\ svcArg # "") =>
        \A p \in 1..Len(svcCalls) :
            svcCalls[p].op = "FindSimilar" =>
                /\ p = 2
                /\ svcCalls[1].op = "GenerateEmbedding"
                /\ svcCalls[1].text = svcArg
                /\ svcCalls[1].ok
                /\ svcCalls[p].vec = svcCalls[1].vec
                /\ svcCalls[p].threshold = 0
                /\ svcCalls[p].limit = IF svcLimitArg > 0 THEN svcLimitArg ELSE 5
                /\ (svcOp = "SearchSimilar" /\ svcCalls[p].ok)
                      => /\ svcPc = "done"
                         /\ svcRet = SvcResults(svcCalls[p].results)

\* C16's case: a search with limit 0 has returned two rows as the store
\* ordered them
C16_Witness ==
    /\ svcOp = "SearchSimilar"
    /\ svcLimitArg = 0
    /\ svcPc = "done"
    /\ Len(svcCalls) = 2
    /\ svcCalls[2].ok
    /\ svcCalls[2].limit = 5
    /\ svcRet = SvcResults(<<SearchResult(2), SearchResult(1)>>)

\* the context blocks of the first n documents: "Document i:", the i-th
\* document's content and a blank line, for i = 1..n
RECURSIVE NumberedDocuments(_, _)
NumberedDocuments(docs, n) ==
    IF n = 0 THEN ""
    ELSE NumberedDocuments(docs, n - 1)
         \o "Document " \o ToString(n) \o ":\n" \o docs[n].content \o "\n\n"

\* C17: the prompt Query sends to the generation API is the bare query when
\* no document was retrieved; else it is the preamble "Context information is
\* below.", then for the i-th retrieved document (i from 1, in retrieval
\* order) "Document i:" and its content, then the instruction ending in
\* "answer the following query:", then the query, which ends the prompt.
C17_AugmentedPrompt ==
    \A p \in 1..Len(svcCalls) :
        svcCalls[p].op = "generate" =>
            /\ p = 3
            /\ svcCalls[p - 1].op = "FindSimilar"
            /\ LET docs == [k \in 1..Len(svcCalls[p - 1].results) |->
                                svcCalls[p - 1].results[k].document]
               IN  svcCalls[p].text =
                       IF docs = <<>> THEN svcArg
                       ELSE "Context information is below.\n---------------------\n"
                            \o NumberedDocuments(docs, Len(docs))
                            \o "---------------------\nGiven the context information and not prior knowledge, answer the following query:\n"
                            \o svcArg

\* C17's case: two documents were retrieved, the second row first
C17_Witness ==
    /\ svcOp = "Query"
    /\ Len(svcCalls) = 3
    /\ svcCalls[2].results = <<SearchResult(2), SearchResult(1)>>
    /\ svcCalls[3].text = "Context information is below.\n---------------------\nDocument 1:\ntext 2\n\nDocument 2:\ntext 1\n\n---------------------\nGiven the context information and not prior knowledge, answer the following query:\ngo"

\* C18: Query calls, in this order, GenerateEmbedding for the query,
\* FindSimilar and the generation API; the generation API at most once and
\* only after FindSimilar succeeded; on success it returns the generator's
\* answer with the retrieved documents, in retrieval order; when a call fails
\* it returns an error and no response; it never calls StoreDocument or
\* DeleteDocument.
C18_QueryPipeline ==
    svcOp = "Query" =>
        /\ Len(svcCalls) <= 3
        /\ \A p \in 1..Len(svcCalls) :
              /\ svcCalls[p].op = <<"GenerateEmbedding", "FindSimilar", "generate">>[p]
              /\ p > 1 => svcCalls[p - 1].ok
              /\ svcCalls[p].op \notin {"StoreDocument", "DeleteDocument"}
        /\ Len(svcCalls) >= 1 => svcCalls[1].text = svcArg
        /\ (svcPc = "done" /\ svcArg # "") =>
              /\ Len(svcCalls) >= 1
              /\ svcCalls[Len(svcCalls)].ok => Len(svcCalls) = 3
              /\ IF Len(svcCalls) = 3 /\ svcCalls[3].ok
                 THEN svcRet = SvcResponse(svcCalls[3].answer,
                                   [k \in 1..Len(svcCalls[2].results) |->
                                        svcCalls[2].results[k].document])
                 ELSE /\ svcRet.err \notin {"nil", "pending"}
                      /\ DOMAIN svcRet = {"err"}

\* C18's case: Query has answered from two retrieved documents
C18_Witness ==
    /\ svcOp = "Query"
    /\ svcPc = "done"
    /\ Len(svcCalls) = 3
    /\ svcRet.err = "nil"
    /\ svcRet.answer = "yes"
    /\ svcRet.documents = <<SearchResult(2).document, SearchResult(1).document>>

----------------------------------------------------------------------------
(* The vector store: PostgresVectorDB.StoreDocument and DeleteDocument on   *)
(* the tables rag.documents and rag.embeddings.  A call runs in one         *)
(* transaction, which sees the committed rows and its own writes; calls are *)
(* made one after the other.                                                *)

MaxCalls == 3
MaxDocs == 2

DocIds == 1..MaxDocs

DocumentRow(id) == [id |-> id, content |-> "text " \o ToString(id)]
EmbeddingRow(id, documentId) == [id |-> id, document_id |-> documentId]

\* rag.documents: id UUID PRIMARY KEY
PrimaryKeyTaken(table, id) == \E row \in table : row.id = id

\* the embeddings left as they are when a document is deleted
CascadeDelete_None(table, documentId) == table

\* rag.embeddings: document_id REFERENCES rag.documents(id) ON DELETE CASCADE
CascadeDelete(table, documentId) == {row \in table : row.document_id # documentId}

\* the writes of a transaction that was rolled back left in the table
AfterRollback_WritesKept(table, txTable) == txTable

\* a table after tx.Rollback(), after tx.Commit()
AfterRollback(table, txTable) == table
AfterCommit(table, txTable) == txTable

StoreInit ==
    /\ ChunkerIdle
    /\ LoaderIdle
    /\ ServiceIdle
    /\ HttpIdle
    /\ dbConnected = FALSE
    /\ documents = {}
    /\ embeddings = {}
    /\ dbCall = [op |-> "none"]
    /\ dbPc = "ready"
    /\ txOpen = FALSE
    /\ txDocuments = {}
    /\ txEmbeddings = {}
    /\ dbRet = "pending"
    /\ dbCalls = 0

others == <<cvars, lvars, svars, hvars>>

\* p.db == nil, else BeginTx
Begin(op, id, next) ==
    /\ dbPc = "ready"
    /\ dbCalls < MaxCalls
    /\ dbCalls' = dbCalls + 1
    /\ dbCall' = [op |-> op, id |-> id]
    /\ IF ~dbConnected
       THEN /\ dbRet' = "database not connected"
            /\ UNCHANGED <<dbPc, txOpen, txDocuments, txEmbeddings>>
       ELSE \E ok \in BOOLEAN :
               IF ok
               THEN /\ dbPc' = next
                    /\ txOpen' = TRUE
                    /\ txDocuments' = documents
                    /\ txEmbeddings' = embeddings
                    /\ dbRet' = "pending"
               ELSE /\ dbRet' = "failed to begin transaction"
                    /\ UNCHANGED <<dbPc, txOpen, txDocuments, txEmbeddings>>
    /\ UNCHANGED <<others, dbConnected, documents, embeddings>>

\* return err with err # nil: the deferred function rolls the transaction back
FailAndRollback(err) ==
    /\ dbRet' = err
    /\ dbPc' = "ready"
    /\ txOpen' = FALSE
    /\ documents' = AfterRollback(documents, txDocuments)
    /\ embeddings' = AfterRollback(embeddings, txEmbeddings)
    /\ UNCHANGED <<txDocuments, txEmbeddings>>

\* tx.Commit() and the return; when Commit reports an error the transaction
\* was aborted or, the connection lost, committed all the same
Commit ==
    /\ \E ok \in BOOLEAN, applied \in BOOLEAN :
          /\ ok => applied
          /\ dbRet' = IF ok THEN "nil" ELSE "failed to commit transaction"
          /\ IF applied
             THEN /\ documents' = AfterCommit(documents, txDocuments)
                  /\ embeddings' = AfterCommit(embeddings, txEmbeddings)
             ELSE UNCHANGED <<documents, embeddings>>
    /\ dbPc' = "ready"
    /\ txOpen' = FALSE
    /\ UNCHANGED <<others, dbConnected, dbCall, txDocuments, txEmbeddings, dbCalls>>

StoreDocumentBegin ==
    /\ dbPc = "ready"
    /\ \E id \in DocIds : Begin("StoreDocument", id, "store_marshal")

\* json.Marshal(doc.Metadata)
StoreDocumentMarshal ==
    /\ dbPc = "store_marshal"
    /\ \E ok \in BOOLEAN :
          IF ok
          THEN /\ dbPc' = "store_document"
               /\ UNCHANGED <<documents, embeddings, txOpen, txDocuments, txEmbeddings, dbRet>>
          ELSE FailAndRollback("failed to marshal metadata")
    /\ UNCHANGED <<others, dbConnected, dbCall, dbCalls>>

\* INSERT INTO rag.documents
StoreDocumentInsertDocument ==
    /\ dbPc = "store_document"
    /\ \E ok \in BOOLEAN :
          IF ok /\ ~PrimaryKeyTaken(txDocuments, dbCall.id)
          THEN /\ txDocuments' = txDocuments \cup {DocumentRow(dbCall.id)}
               /\ dbPc' = "store_embedding"
               /\ UNCHANGED <<documents, embeddings, txOpen, txEmbeddings, dbRet>>
          ELSE FailAndRollback("failed to insert document")
    /\ UNCHANGED <<others, dbConnected, dbCall, dbCalls>>

\* INSERT INTO rag.embeddings, the row's id a new uuid
StoreDocumentInsertEmbedding ==
    /\ dbPc = "store_embedding"
    /\ \E ok \in BOOLEAN :
          IF ok
          THEN /\ txEmbeddings' = txEmbeddings \cup {EmbeddingRow(dbCalls, dbCall.id)}
               /\ dbPc' = "store_commit"
               /\ UNCHANGED <<documents, embeddings, txOpen, txDocuments, dbRet>>
          ELSE FailAndRollback("failed to insert embedding")
    /\ UNCHANGED <<others, dbConnected, dbCall, dbCalls>>

StoreDocumentCommit ==
    /\ dbPc = "store_commit"
    /\ Commit

DeleteDocumentBegin ==
    /\ dbPc = "ready"
    /\ \E id \in DocIds : Begin("DeleteDocument", id, "delete_document")

\* DELETE FROM rag.documents WHERE id = $1, and the rows-affected test: a
\* "document not found" return leaves err nil, so nothing ends the transaction
DeleteDocumentExec ==
    /\ dbPc = "delete_document"
    /\ \E ok \in BOOLEAN :
          IF ~ok
          THEN FailAndRollback("failed to delete document")
          ELSE IF ~PrimaryKeyTaken(txDocuments, dbCall.id)
          THEN /\ dbRet' = "document not found"
               /\ dbPc' = "ready"
               /\ UNCHANGED <<documents, embeddings, txOpen, txDocuments, txEmbeddings>>
          ELSE /\ txDocuments' = {row \in txDocuments : row.id # dbCall.id}
               /\ txEmbeddings' = CascadeDelete(txEmbeddings, dbCall.id)
               /\ dbPc' = "delete_commit"
               /\ UNCHANGED <<documents, embeddings, txOpen, dbRet>>
    /\ UNCHANGED <<others, dbConnected, dbCall, dbCalls>>

DeleteDocumentCommit ==
    /\ dbPc = "delete_commit"
    /\ Commit

\* Connect with p.db set before the ping is tested
Connect_SetBeforePing ==
    /\ dbPc = "ready"
    /\ \E openOk \in BOOLEAN, pingOk \in BOOLEAN :
          /\ dbRet' = IF ~openOk THEN "failed to connect to database"
                      ELSE IF ~pingOk THEN "failed to ping database"
                      ELSE "nil"
          /\ dbConnected' = (dbConnected \/ openOk)
    /\ dbCall' = [op |-> "Connect", id |-> 0, rows |-> {}]
    /\ UNCHANGED <<others, documents, embeddings, dbPc, txOpen, txDocuments, txEmbeddings,
                   dbCalls>>

\* Connect: sql.Open, PingContext, and only then p.db = db
Connect ==
    /\ dbPc = "ready"
    /\ \E openOk \in BOOLEAN, pingOk \in BOOLEAN :
          /\ dbRet' = IF ~openOk THEN "failed to connect to database"
                      ELSE IF ~pingOk THEN "failed to ping database"
                      ELSE "nil"
          /\ dbConnected' = (dbConnected \/ (openOk /\ pingOk))
    /\ dbCall' = [op |-> "Connect", id |-> 0, rows |-> {}]
    /\ UNCHANGED <<others, documents, embeddings, dbPc, txOpen, txDocuments, txEmbeddings,
                   dbCalls>>

DefaultListLimit == 10
QueryLimits == {0, 1}

\* a query of p.db outside any transaction: it returns err and rows
Read(op, id, err, rows) ==
    /\ dbCall' = [op |-> op, id |-> id, rows |-> rows]
    /\ dbRet' = err
    /\ UNCHANGED <<others, dbConnected, documents, embeddings, dbPc, txOpen, txDocuments,
                   txEmbeddings, dbCalls>>

\* the documents rag.search_similar_documents can return for a limit: documents
\* that have an embedding, at most max_results of them
SimilarRows(lim) ==
    {rows \in SUBSET {row \in documents :
                         \E e \in embeddings : e.document_id = row.id} :
        Cardinality(rows) <= lim}

FindSimilar ==
    /\ dbPc = "ready"
    /\ \E lim \in QueryLimits :
          IF ~dbConnected
          THEN Read("FindSimilar", 0, "database not connected", {})
          ELSE \E ok \in BOOLEAN, rows \in SimilarRows(lim) :
                  IF ok THEN Read("FindSimilar", 0, "nil", rows)
                  ELSE Read("FindSimilar", 0, "failed to execute similarity search", {})

GetDocument ==
    /\ dbPc = "ready"
    /\ \E id \in DocIds :
          IF ~dbConnected
          THEN Read("GetDocument", id, "database not connected", {})
          ELSE \E ok \in BOOLEAN :
                  IF ~ok THEN Read("GetDocument", id, "failed to get document", {})
                  ELSE IF ~PrimaryKeyTaken(documents, id)
                  THEN Read("GetDocument", id, "document not found", {})
                  ELSE Read("GetDocument", id, "nil", {row \in documents : row.id = id})

\* the pages LIMIT $1 OFFSET $2 can return, whatever the order of created_at
ListedRows(lim, offset) ==
    LET n == Cardinality(documents) - offset
        size == IF n < 0 THEN 0 ELSE IF n < lim THEN n ELSE lim
    IN  {rows \in SUBSET documents : Cardinality(rows) = size}

ListDocuments ==
    /\ dbPc = "ready"
    /\ \E lim \in QueryLimits, offset \in {0, 1} :
          IF ~dbConnected
          THEN Read("ListDocuments", 0, "database not connected", {})
          ELSE \E ok \in BOOLEAN,
                  rows \in ListedRows(IF lim <= 0 THEN DefaultListLimit ELSE lim, offset) :
                  IF ok THEN Read("ListDocuments", 0, "nil", rows)
                  ELSE Read("ListDocuments", 0, "failed to list documents", {})

StoreNext ==
    \/ Connect
    \/ FindSimilar
    \/ GetDocument
    \/ ListDocuments
    \/ StoreDocumentBegin
    \/ StoreDocumentMarshal
    \/ StoreDocumentInsertDocument
    \/ StoreDocumentInsertEmbedding
    \/ StoreDocumentCommit
    \/ DeleteDocumentBegin
    \/ DeleteDocumentExec
    \/ DeleteDocumentCommit

StoreSpec == StoreInit /\ [][StoreNext]_vars

----------------------------------------------------------------------------
(* Properties of the vector store *)

HasDocument(id) == \E row \in documents : row.id = id
EmbeddingsOf(id) == {row \in embeddings : row.document_id = id}

\* C19: when StoreDocument has returned, whether it succeeded or failed at
\* its begin, at the metadata encoding, at either insert or at the commit,
\* the committed tables hold both the document's row and its embedding row or
\* neither; they hold both when it succeeded.
C19_StoreDocumentAtomic ==
    (dbPc = "ready" /\ dbCall.op = "StoreDocument") =>
        /\ HasDocument(dbCall.id) <=> EmbeddingsOf(dbCall.id) # {}
        /\ dbRet = "nil" => HasDocument(dbCall.id)

\* C19's case: the embedding insert of a new document has failed after its
\* document insert, and neither row is in the tables
C19_Witness ==
    /\ dbPc = "ready"
    /\ dbCall.op = "StoreDocument"
    /\ dbRet = "failed to insert embedding"
    /\ PrimaryKeyTaken(txDocuments, dbCall.id)
    /\ ~HasDocument(dbCall.id)
    /\ EmbeddingsOf(dbCall.id) = {}

\* C20: at any point of any sequence of StoreDocument and DeleteDocument
\* calls, every committed document has exactly one embedding row and every
\* embedding row is of a committed document; after a successful
\* DeleteDocument(id) neither the document id nor an embedding of it is left.
C20_OneEmbeddingPerDocument ==
    /\ \A row \in documents : Cardinality(EmbeddingsOf(row.id)) = 1
    /\ \A row \in embeddings : HasDocument(row.document_id)
    /\ (dbPc = "ready" /\ dbCall.op = "DeleteDocument" /\ dbRet = "nil")
          => ~HasDocument(dbCall.id) /\ EmbeddingsOf(dbCall.id) = {}

\* C20's case: one of two stored documents has been deleted
C20_Witness ==
    /\ dbPc = "ready"
    /\ dbCall.op = "DeleteDocument"
    /\ dbRet = "nil"
    /\ Cardinality(documents) = 1
    /\ Cardinality(embeddings) = 1
    /\ ~HasDocument(dbCall.id)

DataOps == {"StoreDocument", "FindSimilar", "GetDocument", "ListDocuments", "DeleteDocument"}

\* C21: as long as no Connect has succeeded, each of StoreDocument,
\* FindSimilar, GetDocument, ListDocuments and DeleteDocument returns
\* "database not connected" and changes no row; a Connect that fails, at the
\* ping or before, leaves the store not connected.
C21_NotConnected ==
    /\ [](~dbConnected =>
            /\ dbPc = "ready"
            /\ ~txOpen
            /\ dbCall.op \in DataOps => dbRet = "database not connected")
    /\ [][ /\ ~dbConnected => (documents' = documents /\ embeddings' = embeddings)
           /\ (~dbConnected /\ dbCall'.op = "Connect" /\ dbRet' # "nil")
                 => ~dbConnected' ]_vars

\* C21's case: GetDocument has been refused, as was a StoreDocument or
\* DeleteDocument call before it
C21_Witness ==
    /\ ~dbConnected
    /\ dbCall.op = "GetDocument"
    /\ dbRet = "database not connected"
    /\ dbCalls >= 1

----------------------------------------------------------------------------
(* The HTTP API: Server's handlers over the RAG service.  A handler that    *)
(* calls the service takes one step up to the call and one step from the    *)
(* service's return to the response.                                        *)

StatusOK == 200
StatusCreated == 201
StatusBadRequest == 400
StatusInternalServerError == 500

BodyRoutes == {"POST /api/documents", "POST /api/search", "POST /api/query"}
IdRoutes == {"GET /api/documents/:id", "DELETE /api/documents/:id"}
Routes == BodyRoutes \cup IdRoutes \cup {"GET /api/documents"}

\* request bodies: text that is not JSON, or an object with its content or
\* query field (absent is "") and its limit
Bodies ==
    {[json |-> FALSE, text |-> "", limit |-> 0]}
        \cup {[json |-> TRUE, text |-> t, limit |-> l] : t \in ServiceTexts, l \in {0, 1}}

IdParams == {"invalid-uuid"} \cup {UuidString(u) : u \in Uuids}

\* uuid.Parse returns no error
ParseOk(s) == s \in {UuidString(u) : u \in Uuids}

\* the binding:"required" tag of the request struct's content or query field
Required(route) ==
    CASE route = "POST /api/documents" -> TRUE
      [] route = "POST /api/search" -> TRUE
      [] route = "POST /api/query" -> FALSE

\* c.ShouldBindJSON returns no error: the body decodes, and a required field
\* is not the zero value
ShouldBindJSON(body, required) == body.json /\ (required => body.text # "")

\* c.JSON(status, ...) and return
Respond(status) ==
    /\ httpStatus' = status
    /\ httpPc' = "done"

\* s.ragService.AddDocument, SearchSimilar or Query is called
CallService(op, arg, lim) ==
    /\ svcOp' = op
    /\ svcArg' = arg
    /\ svcMeta' = <<>>
    /\ svcLimitArg' = lim
    /\ svcLimit' = lim
    /\ svcPc' = "start"
    /\ UNCHANGED <<svcDoc, svcVector, svcFound, svcCalls, svcRet>>

\* a handler up to its call of the service
BindAndCall(op) ==
    /\ IF ~ShouldBindJSON(httpBody, Required(httpRoute))
       THEN Respond(StatusBadRequest) /\ UNCHANGED svars
       ELSE /\ CallService(op, httpBody.text, httpBody.limit)
            /\ httpPc' = "service"
            /\ httpStatus' = httpStatus
    /\ UNCHANGED <<cvars, lvars, dvars, httpRoute, httpBody, httpId>>

\* a handler from the service's return
ReturnFrom(okStatus) ==
    /\ svcPc = "done"
    /\ Respond(IF svcRet.err # "nil" THEN StatusInternalServerError ELSE okStatus)
    /\ UNCHANGED <<cvars, lvars, svars, dvars, httpRoute, httpBody, httpId>>

\* a handler of a route with an :id parameter
CheckId ==
    /\ Respond(IF httpId = "" \/ ~ParseOk(httpId) THEN StatusBadRequest ELSE StatusOK)
    /\ UNCHANGED <<cvars, lvars, svars, dvars, httpRoute, httpBody, httpId>>

ApiInit ==
    /\ ChunkerIdle
    /\ LoaderIdle
    /\ ServiceIdle
    /\ StoreIdle
    /\ httpRoute \in Routes
    /\ httpBody \in Bodies
    /\ httpId \in IdParams
    /\ httpPc = "request"
    /\ httpStatus = 0

StoreDocumentHandler ==
    /\ httpPc = "request"
    /\ httpRoute = "POST /api/documents"
    /\ BindAndCall("AddDocument")

StoreDocumentHandlerReturn ==
    /\ httpPc = "service"
    /\ httpRoute = "POST /api/documents"
    /\ ReturnFrom(StatusCreated)

GetDocumentHandler ==
    /\ httpPc = "request"
    /\ httpRoute = "GET /api/documents/:id"
    /\ CheckId

ListDocumentsHandler ==
    /\ httpPc = "request"
    /\ httpRoute = "GET /api/documents"
    /\ Respond(StatusOK)
    /\ UNCHANGED <<cvars, lvars, svars, dvars, httpRoute, httpBody, httpId>>

DeleteDocumentHandler ==
    /\ httpPc = "request"
    /\ httpRoute = "DELETE /api/documents/:id"
    /\ CheckId

SearchHandler ==
    /\ httpPc = "request"
    /\ httpRoute = "POST /api/search"
    /\ BindAndCall("SearchSimilar")

SearchHandlerReturn ==
    /\ httpPc = "service"
    /\ httpRoute = "POST /api/search"
    /\ ReturnFrom(StatusOK)

QueryHandler ==
    /\ httpPc = "request"
    /\ httpRoute = "POST /api/query"
    /\ BindAndCall("Query")

QueryHandlerReturn ==
    /\ httpPc = "service"
    /\ httpRoute = "POST /api/query"
    /\ ReturnFrom(StatusOK)

ApiNext ==
    \/ StoreDocumentHandler
    \/ StoreDocumentHandlerReturn
    \/ GetDocumentHandler
    \/ ListDocumentsHandler
    \/ DeleteDocumentHandler
    \/ SearchHandler
    \/ SearchHandlerReturn
    \/ QueryHandler
    \/ QueryHandlerReturn
    \/ ServiceNext

ApiSpec == ApiInit /\ [][ApiNext]_vars

\* the request fails validation: a body that is not JSON, an empty content or
\* query, a document identifier that is not a UUID
ValidationFailure ==
    \/ httpRoute \in BodyRoutes /\ (~httpBody.json \/ httpBody.text = "")
    \/ httpRoute \in IdRoutes /\ ~ParseOk(httpId)

\* a call of the embedding service, the store or the generation API failed
CollaboratorFailure == \E k \in 1..Len(svcCalls) : ~svcCalls[k].ok

\* C22: on every route a request that fails validation (empty content on
\* POST /api/documents, empty query on POST /api/search and POST /api/query,
\* malformed JSON, malformed document identifier) is answered with status
\* 400, and status 500 is the answer only when a collaborator call failed.
C22_ErrorsByKind ==
    httpPc = "done" =>
        /\ ValidationFailure => httpStatus = StatusBadRequest
        /\ httpStatus = StatusInternalServerError => CollaboratorFailure

----------------------------------------------------------------------------
(* The metadata builders and the caller's map *)

FileKeys == {"source", "file_path", "file_name", "file_ext", "loaded_at"}
ChunkKeys == {"chunk_index", "chunk_count"}

\* meta has the keys of base and the added ones, and every entry of base
HoldsAll(meta, base, added) ==
    /\ DOMAIN meta = (DOMAIN base) \cup added
    /\ \A key \in DOMAIN base : meta[key] = base[key]

\* meta has the keys of base and the added ones, and every entry of base
\* under a key that is not an added one
HoldsRest(meta, base, added) ==
    /\ DOMAIN meta = (DOMAIN base) \cup added
    /\ \A key \in (DOMAIN base) \ added : meta[key] = base[key]

StoreEvents == {n \in 1..Len(log) : log[n].op = "store"}

\* the map a builder is given is left as it was: LoadFromFile's metadata
\* argument throughout, ProcessDocument's during its loop
BaseMapsLeftAlone ==
    /\ baseMeta' = baseMeta
    /\ lpc \in {"embed", "store"} => docMeta' = docMeta

\* C23 as stated: createChunkMetadata and createFileMetadata, and so
\* ProcessDocument and LoadFromFile, leave the caller's base metadata map
\* with the keys and values it had, and return another map that holds every
\* base entry and the added fields.
C23_BaseEntriesAllHeld ==
    /\ [](/\ \A n \in StoreEvents :
                HoldsAll(log[n].doc.metadata, log[n].base, ChunkKeys)
          /\ lpc \in {"embed", "store"} => HoldsAll(docMeta, baseMeta, FileKeys))
    /\ [][BaseMapsLeftAlone]_vars

\* C23, amended: the builders leave the caller's base metadata map with the
\* keys and values it had, and return another map that holds the added
\* fields and every base entry under a key that is not one of the added
\* fields.
C23_BaseMapNotMutated ==
    /\ [](/\ \A n \in StoreEvents :
                /\ HoldsRest(log[n].doc.metadata, log[n].base, ChunkKeys)
                /\ log[n].doc.metadata["chunk_index"] = log[n].chunk
          /\ lpc \in {"embed", "store"} =>
                /\ HoldsRest(docMeta, baseMeta, FileKeys)
                /\ docMeta["source"] = "file"
                /\ docMeta["file_path"] = walk[walkIdx].path)
    /\ [][BaseMapsLeftAlone]_vars

\* C23's case: LoadFromFile has stored the three chunks of a single file, the
\* caller's map still holding its own source entry and nothing else
C23_Witness ==
    /\ mode = "file"
    /\ lpc = "done"
    /\ Len(stored) = 3
    /\ baseMeta = [source |-> "web"]
    /\ stored[3].doc.metadata["source"] = "file"
    /\ stored[3].doc.metadata["chunk_index"] = 2

----------------------------------------------------------------------------
(* More properties of the chunker *)

\* C24: with a strategy that is none of paragraph, sentence and fixed_size,
\* ChunkText returns the chunk list the paragraph strategy returns for the
\* same text, maxSize and overlap.
C24_DefaultIsParagraph ==
    (pc = "done" /\ ~KnownStrategy)
        => chunks = ChunkText(text, "paragraph", maxSize, overlap)

\* C24's case: an unknown strategy, and a text of two paragraphs that comes
\* back as its two paragraphs
C24_Witness ==
    /\ pc = "done"
    /\ ~KnownStrategy
    /\ Len(chunks) = 2
    /\ \E k \in 1..(Len(text) - 1) : text[k] = NL /\ text[k + 1] = NL

\* the strings of a list one after the other
RECURSIVE ConcatAll(_)
ConcatAll(strs) ==
    IF strs = <<>> THEN <<>> ELSE Head(strs) \o ConcatAll(Tail(strs))

\* C25: the sentences splitIntoSentences returns, one after the other, are
\* the input text: no character is dropped and none repeated, and the final
\* sentence of a text that ends with '.', '!' or '?' is returned once.
C25_SentencesPartition ==
    (strategy = "sentence" /\ pc # "call")
        => ConcatAll(splitIntoSentences(text)) = text

\* C26: combineItemsIntoChunks with maxSize > 0 and 0 <= overlap < maxSize:
\* a buffer that an append made longer than maxSize is re-split with the
\* fixed-size strategy, the pieces but the last are emitted and the last is
\* the buffer, so that the buffer is no longer than maxSize whenever the next
\* item is considered and at the final flush.
C26_BufferWithinMaxSize ==
    (pc = "combine" /\ ValidOptions) => Len(currentChunk) <= maxSize

\* combineItemsIntoChunks is about to close its buffer for the next item
Closing ==
    /\ pc = "combine"
    /\ items # <<>>
    /\ Len(currentChunk) > 0
    /\ Len(currentChunk) + 1 + Len(Head(items)) > maxSize

\* the accumulated length of the last n words: their lengths and one each
RECURSIVE RunWeight(_, _)
RunWeight(words, n) ==
    IF n = 0 THEN 0
    ELSE Len(words[Len(words) - n + 1]) + 1 + RunWeight(words, n - 1)

\* the numbers of trailing words whose accumulated length reaches ov
ReachingRuns(words, ov) == {n \in 1..Len(words) : RunWeight(words, n) >= ov}

\* the shortest run of trailing words whose accumulated length reaches ov;
\* no word when no run does
TrailingRun(words, ov) ==
    IF ReachingRuns(words, ov) = {} THEN <<>>
    ELSE SubSeq(words, Len(words) - SetMin(ReachingRuns(words, ov)) + 1, Len(words))

\* the buffer after this step is b, as it is before an oversized buffer is
\* split again (a buffer that is oversized only by its surrounding whitespace
\* is trimmed within the step)
NextBufferIs(b) ==
    IF Len(b) > maxSize /\ pc' = "combine"
    THEN currentChunk' = TrimSpace(b)
    ELSE currentChunk' = b

C28_CloseOrAppend ==
    [][pc = "combine" =>
          IF items = <<>>
          THEN /\ pc' = "done"
               /\ chunks' = IF TrimSpace(currentChunk) # <<>>
                            THEN Append(chunks, TrimSpace(currentChunk))
                            ELSE chunks
          ELSE IF Closing
          THEN chunks' = Append(chunks, TrimSpace(currentChunk))
          ELSE /\ chunks' = chunks
               /\ NextBufferIs(IF currentChunk = <<>> THEN Head(items)
                               ELSE currentChunk \o <<Space>> \o Head(items))]_vars

\* C28's case: the sentence "a b c d." filled the buffer, was closed for the
\* next sentence, and that sentence was flushed as the final chunk
C28_Witness ==
    /\ pc = "done"
    /\ strategy = "sentence"
    /\ maxSize = 8
    /\ overlap = 0
    /\ chunks = << <<"a", " ", "b", " ", "c", " ", "d", ".">>, <<"B">> >>

\* a text without its whitespace characters
RECURSIVE StripSpace(_)
StripSpace(s) ==
    IF s = <<>> THEN <<>>
    ELSE IF IsSpace(Head(s)) THEN StripSpace(Tail(s))
    ELSE <<Head(s)>> \o StripSpace(Tail(s))

\* the characters of a are found in b, in order
RECURSIVE IsSubsequence(_, _)
IsSubsequence(a, b) ==
    IF a = <<>> THEN TRUE
    ELSE IF b = <<>> THEN FALSE
    ELSE IF Head(a) = Head(b) THEN IsSubsequence(Tail(a), Tail(b))
    ELSE IsSubsequence(a, Tail(b))

\* C30: with any strategy, maxSize > 0 and 0 <= overlap < maxSize, the text
\* without its whitespace is a subsequence of the returned chunks, one after
\* the other, without their whitespace: no content of the text is dropped.
C30_NoContentDropped ==
    (pc = "done" /\ ValidOptions)
        => IsSubsequence(StripSpace(text), StripSpace(ConcatAll(chunks)))

\* C30's case: two sentences chunked with an overlap, the chunks holding
\* more than the text does
C30_Witness ==
    /\ pc = "done"
    /\ ValidOptions
    /\ strategy = "sentence"
    /\ overlap > 0
    /\ Len(chunks) >= 2
    /\ Len(StripSpace(ConcatAll(chunks))) > Len(StripSpace(text))

----------------------------------------------------------------------------
(* More properties of the vector store *)

\* C29: a transaction begun by StoreDocument or DeleteDocument is committed
\* or rolled back before the call returns, on every return path, that of
\* DeleteDocument's "document not found" included: between calls no
\* transaction is open.
C29_NoTransactionLeftOpen ==
    dbPc = "ready" => ~txOpen

====
